---- MODULE Spec2Model ----
(***************************************************************************)
(* Shared-memory GDS component (gds_shmem.c): segment lifecycle of the     *)
(* server (creator) and of a client (attacher), the connection-info blob   *)
(* and the job/modex trackers.                                             *)
(***************************************************************************)
EXTENDS Integers, Sequences, FiniteSets, TLC

\* ------------------------------------------------------------------ bounds
\* Page slots of a process's virtual address range the hole finder looks at.
NumPages == 3
\* Backing files created in a run: every new file takes a fresh inode.
NumInodes == 3
\* Largest number of local peers of a namespace.
MaxLocalProcs == 2
\* Calls of entry points in a run.
MaxCalls == 4
\* Fences (server_store_modex calls that store data) per MODEX segment.
MaxFences == 2
\* Width of size_t / long long in bits (64 in the build, scaled down).
WordBits == 20

\* --------------------------------------------------------------- constants
PageSize == 4096
VmBase == 16 * PageSize
fluff_x2 == 5
modex_ht_per_peer == 256

\* sizeof() of the structures the size estimates add up (bytes).
SizeofSmdata == 96
SizeofSmmodex == 64
SizeofTma == 56
SizeofSession == 48
SizeofList == 64
SizeofHashTable == 80
SizeofHashElement == 4
SizeofKval == 8
SizeofValue == 8

NS == {"nsA", "nsB"}
Clients == {"c1"}
Procs == {"srv"} \cup Clients

JOB == "JOB"
MODEX == "MODEX"
INVALID == "INVALID"
shmem_ids == <<JOB, MODEX, INVALID>>
Roles == {JOB, MODEX}

ATTACHED == "ATTACHED"
READY_FOR_USE == "READY_FOR_USE"
RELEASE == "RELEASE"
Flags == {ATTACHED, READY_FOR_USE, RELEASE}

PMIX_SUCCESS == "PMIX_SUCCESS"
PMIX_ERROR == "PMIX_ERROR"
PMIX_ERR_NOMEM == "PMIX_ERR_NOMEM"
PMIX_ERR_NOT_FOUND == "PMIX_ERR_NOT_FOUND"
PMIX_ERR_NOT_SUPPORTED == "PMIX_ERR_NOT_SUPPORTED"
PMIX_ERR_BAD_PARAM == "PMIX_ERR_BAD_PARAM"
PMIX_ERR_TYPE_MISMATCH == "PMIX_ERR_TYPE_MISMATCH"
PMIX_ERR_UNPACK_FAILURE == "PMIX_ERR_UNPACK_FAILURE"
PMIX_ERR_UNPACK_READ_PAST_END_OF_BUFFER == "PMIX_ERR_UNPACK_READ_PAST_END_OF_BUFFER"

SHMEM_SEG_BLOB_KEY == "PMIX_GDS_SHMEM_SEG_BLOB"
SHMEM_SEG_NSID_KEY == "PMIX_GDS_SHMEM_NSPACEID"
SHMEM_SEG_SMID_KEY == "PMIX_GDS_SHMEM_SMSEGID"
SHMEM_SEG_PATH_KEY == "PMIX_GDS_SHMEM_SEG_PATH"
SHMEM_SEG_SIZE_KEY == "PMIX_GDS_SHMEM_SEG_SIZE"
SHMEM_SEG_ADDR_KEY == "PMIX_GDS_SHMEM_SEG_ADDR"

Pow2(n) == 2 ^ n
SIZE_MAX == Pow2(WordBits) - 1
LLONG_MAX == Pow2(WordBits - 1) - 1
LLONG_MIN == 0 - Pow2(WordBits - 1)

Min(a, b) == IF a < b THEN a ELSE b

\* ------------------------------------------------------- strings of digits
\* A string is a sequence of one-character strings.
HexDigits == <<"0", "1", "2", "3", "4", "5", "6", "7",
               "8", "9", "a", "b", "c", "d", "e", "f">>

DigitVal(c) ==
    IF \E i \in 1..16 : HexDigits[i] = c
    THEN (CHOOSE i \in 1..16 : HexDigits[i] = c) - 1
    ELSE IF c = "A" THEN 10 ELSE IF c = "B" THEN 11 ELSE IF c = "C" THEN 12
    ELSE IF c = "D" THEN 13 ELSE IF c = "E" THEN 14 ELSE IF c = "F" THEN 15
    ELSE 16

IsDigit(c, base) == DigitVal(c) < base

\* The value of v, computed once, handed to K: a local of the C function.
With(v, K(_)) == CHOOSE r \in {K(x) : x \in {v}} : TRUE

\* printf("%zx") / printf("%zd") of a size_t value: digits, no prefix.
RECURSIVE FormatBase(_, _)
FormatBase(n0, base) ==
    With(n0, LAMBDA n :
        IF n < base THEN <<HexDigits[n + 1]>>
        ELSE Append(FormatBase(n \div base, base), HexDigits[(n % base) + 1]))

\* "%zd" prints its argument as a signed value of the word's width.
FormatZd(n0) ==
    With(n0, LAMBDA n :
        IF n > LLONG_MAX THEN <<"-">> \o FormatBase(SIZE_MAX + 1 - n, 10)
        ELSE FormatBase(n, 10))

FormatZx(n) == FormatBase(n, 16)

RECURSIVE SkipSpace(_, _)
SkipSpace(str, i0) ==
    With(i0, LAMBDA i :
        IF i <= Len(str) /\ str[i] = " " THEN SkipSpace(str, i + 1) ELSE i)

\* Digits of strtoll from position i; the magnitude saturates just above the
\* largest one a long long holds.
RECURSIVE Accum(_, _, _, _, _)
Accum(str, i0, base, acc0, n0) ==
    With([i |-> i0, acc |-> acc0, n |-> n0], LAMBDA a :
        IF a.i <= Len(str) /\ IsDigit(str[a.i], base)
        THEN Accum(str, a.i + 1, base,
                   Min(a.acc * base + DigitVal(str[a.i]), LLONG_MAX + 2), a.n + 1)
        ELSE [acc |-> a.acc, n |-> a.n, end |-> a.i])

\* strtoll(str, &end, base): val, the index of *end (Len+1 is the NUL) and
\* whether errno is ERANGE.
strtoll(str0, base) ==
    With(str0, LAMBDA str :
    With(SkipSpace(str, 1), LAMBDA i0 :
        LET neg == i0 <= Len(str) /\ str[i0] = "-"
            i1 == IF i0 <= Len(str) /\ str[i0] \in {"-", "+"} THEN i0 + 1 ELSE i0
            pfx == /\ base = 16
                   /\ i1 + 2 <= Len(str)
                   /\ str[i1] = "0"
                   /\ str[i1 + 1] \in {"x", "X"}
                   /\ IsDigit(str[i1 + 2], 16)
            i2 == IF pfx THEN i1 + 2 ELSE i1
        IN  With(Accum(str, i2, base, 0, 0), LAMBDA r :
                IF r.n = 0 THEN [val |-> 0, end |-> 1, erange |-> FALSE]
                ELSE IF ~neg /\ r.acc > LLONG_MAX
                     THEN [val |-> LLONG_MAX, end |-> r.end, erange |-> TRUE]
                ELSE IF neg /\ r.acc > LLONG_MAX + 1
                     THEN [val |-> LLONG_MIN, end |-> r.end, erange |-> TRUE]
                ELSE [val |-> IF neg THEN 0 - r.acc ELSE r.acc,
                      end |-> r.end, erange |-> FALSE])))

\* (size_t)val
ToSizeT(val) == val % (SIZE_MAX + 1)

strtost(str, base) ==
    With(strtoll(str, base), LAMBDA r :
        IF \/ (r.erange /\ r.val = LLONG_MAX)
           \/ (r.erange /\ r.val = LLONG_MIN)
           \/ r.end <= Len(str)
        THEN [rc |-> PMIX_ERROR, val |-> 0]
        ELSE [rc |-> PMIX_SUCCESS, val |-> ToSizeT(r.val)])

\* The end of the allocation, not rounded up.
addr_align_packed(base, size) == (base + size) % (SIZE_MAX + 1)

\* addr_align(base, size) = (base + size + 7) & ~7, on uintptr_t
addr_align(base, size) == (((base + size + 7) % (SIZE_MAX + 1)) \div 8) * 8

\* ------------------------------------------------------------------- state
VARIABLES
    ptype,        \* [Procs -> {"server", "launcher", "client"}] pmix_globals.mypeer
    nlocalprocs,  \* [NS -> Nat]     ns->nlocalprocs
    ndelivered,   \* [NS -> Nat]     ns->ndelivered (kept by the caller)
    jobbkt,       \* [NS -> buffer]  ns->jobbkt, <<>> with cached = FALSE is NULL
    jobs,         \* [Procs -> [NS -> tracker]] component.jobs of each process
    files,        \* [Paths -> inode number], 0: no such file
    inodes,       \* [1..NumInodes -> contents of a backing file]
    maps,         \* [Procs -> set of mappings [ino, addr, size]]
    wire,         \* the connection blob last packed for each segment role
    ncalls,       \* calls of entry points so far
    last          \* the call that has just returned, with its arguments and
                  \* results, until the caller has taken them

vars == <<ptype, nlocalprocs, ndelivered, jobbkt, jobs, files, inodes, maps,
          wire, ncalls, last>>

\* A backing path names the namespace, the segment and the creating process.
Paths == {<<ns, id, p>> : ns \in NS, id \in {"jobdata", "modexdata"}, p \in Procs}
NoPath == <<>>
SegName(role) == IF role = JOB THEN "jobdata" ELSE "modexdata"

\* Page-aligned addresses of the range the hole finder and mmap choose from.
PageAddr(i) == VmBase + i * PageSize
PageAddrs == {PageAddr(i) : i \in 0..(NumPages - 1)}
VmEnd == PageAddr(NumPages)

\* pmix_shmem_t after construction.
shmem_construct ==
    [backing_path |-> NoPath, size |-> 0, base_address |-> 0, ino |-> 0]

\* job_construct: a fresh tracker.
job_construct ==
    [live |-> TRUE,
     status |-> [r \in Roles |-> {}],
     shmem |-> [r \in Roles |-> shmem_construct],
     sm |-> [r \in Roles |-> 0]]

\* No tracker of the namespace is in the job list.
NoJob == [job_construct EXCEPT !.live = FALSE]

\* The header at offset 0 of a segment and what the arena holds behind it.
ZeroHdr ==
    [current_addr |-> 0, tma |-> "", jobinfo |-> 0, nodeinfo |-> 0,
     appinfo |-> 0, local_hashtab |-> 0, hashtab |-> 0, ht_capacity |-> 0]
ZeroSeg == [size |-> 0, hdr |-> ZeroHdr, stored |-> 0, creator |-> ""]

\* The world one call of an entry point reads and writes: the program state,
\* whether the choices of the environment fit it, and the steps the call took.
World ==
    [jobs |-> jobs, files |-> files, inodes |-> inodes, maps |-> maps,
     wire |-> wire, jobbkt |-> jobbkt, envok |-> TRUE, ev |-> <<>>]

\* A step of the running call, for the record of the call.
Event(W, what, ns, role) ==
    [W EXCEPT !.ev = Append(@, [e |-> what, ns |-> ns, role |-> role])]

\* Status-flag helpers of a tracker.
has_status(W, p, ns, role, flag) == flag \in W.jobs[p][ns].status[role]
set_status(W, p, ns, role, flag) ==
    [W EXCEPT !.jobs[p][ns].status[role] = @ \cup {flag}]
clearall_status(W, p, ns, role) ==
    [W EXCEPT !.jobs[p][ns].status[role] = {}]

\* pmix_gds_shmem_get_job_tracker(nspace, create, &job)
get_job_tracker(W0, p, ns, create) ==
    With(W0, LAMBDA W :
        IF W.jobs[p][ns].live THEN [rc |-> PMIX_SUCCESS, W |-> W]
        ELSE IF create
             THEN [rc |-> PMIX_SUCCESS,
                   W |-> [W EXCEPT !.jobs[p][ns] = job_construct]]
             ELSE [rc |-> PMIX_ERR_NOT_FOUND, W |-> W])

\* --------------------------------------------------------- page arithmetic
get_page_size == PageSize

\* A pad that is a whole page where none is needed.
pad_amount_to_page_more(size) == get_page_size - (size % get_page_size)

\* ((~size) + page_size + 1) & (page_size - 1), on size_t
pad_amount_to_page(size) ==
    (((SIZE_MAX - size) + get_page_size + 1) % (SIZE_MAX + 1)) % get_page_size

\* Bytes of address space a mapping of `size` bytes takes (whole pages).
MapLen(size) == ((size + PageSize - 1) \div PageSize) * PageSize

Overlaps(a1, l1, a2, l2) == a1 < a2 + l2 /\ a2 < a1 + l1

\* The range [addr, addr + len) lies in the address range and is unmapped in p.
RangeFree(mapped, addr, len) ==
    /\ addr \in PageAddrs
    /\ addr + len <= VmEnd
    /\ \A m \in mapped : ~Overlaps(addr, len, m.addr, MapLen(m.size))

\* pmix_vmem_find_hole(VMEM_HOLE_BIGGEST, &addr, size): the starts of the
\* largest unmapped ranges of at least `size` bytes; {} when there is none.
HoleLen(mapped, addr) ==
    With({n \in 1..NumPages : RangeFree(mapped, addr, n * PageSize)}, LAMBDA ok :
        IF ok = {} THEN 0
        ELSE PageSize * (CHOOSE n \in ok : \A k \in ok : k <= n))
HoleStarts(mapped) ==
    {a \in PageAddrs :
        /\ HoleLen(mapped, a) > 0
        /\ (a = VmBase \/ HoleLen(mapped, a - PageSize) = 0)}
vmem_find_hole(W, p, size0) ==
    With([mapped |-> W.maps[p], size |-> size0], LAMBDA v :
    With({a \in HoleStarts(v.mapped) : HoleLen(v.mapped, a) >= v.size}, LAMBDA big :
        {a \in big : \A b \in big : HoleLen(v.mapped, b) <= HoleLen(v.mapped, a)}))

\* ------------------------------------------------------------ job key data
PMIX_PROC_DATA == "pmix.pdata"
PMIX_NODE_INFO_ARRAY == "pmix.node.arr"
PMIX_DATA_ARRAY == "PMIX_DATA_ARRAY"
PMIX_STRING == "PMIX_STRING"
PMIX_BYTE_OBJECT == "PMIX_BYTE_OBJECT"

\* What a wildcard fetch of the job-level keys of a namespace returns: each
\* entry with its type, the length of its array and its packed size.
JobData(ns) ==
    IF ns = "nsA"
    THEN <<[key |-> "k1", type |-> PMIX_STRING, n |-> 0, packed |-> 24],
           [key |-> "k2", type |-> "PMIX_INT", n |-> 0, packed |-> 16]>>
    ELSE <<[key |-> PMIX_PROC_DATA, type |-> PMIX_DATA_ARRAY, n |-> 2, packed |-> 64],
           [key |-> PMIX_NODE_INFO_ARRAY, type |-> PMIX_DATA_ARRAY, n |-> 1, packed |-> 40],
           [key |-> "k3", type |-> PMIX_STRING, n |-> 0, packed |-> 24]>>

\* job->nspace->nprocs and the bytes of a fence payload for the namespace.
NProcs(ns) == IF ns = "nsA" THEN 1 ELSE 2
ModexBytes(ns) == IF ns = "nsA" THEN 48 ELSE 96

\* pmix_hash_table_init(ht, n) keeps room for twice n, rounded up to 1 mod 30.
hash_table_capacity(n) == (((2 * n) + 29) \div 30) * 30 + 1

get_actual_hashtab_capacity(num_elements) == hash_table_capacity(num_elements)

\* Entries a fetched key adds to the expected hash-table population.
HtEntriesOf_one_each(kv) ==
    IF kv.type = PMIX_DATA_ARRAY /\ kv.key = PMIX_PROC_DATA THEN kv.n ELSE 1
HtEntriesOf(kv) ==
    IF kv.type = PMIX_DATA_ARRAY
    THEN (IF kv.key = PMIX_PROC_DATA THEN kv.n ELSE 0)
    ELSE 1

RECURSIVE SumHtEntries(_, _)
SumHtEntries(kvs, i) ==
    IF i > Len(kvs) THEN 0 ELSE HtEntriesOf(kvs[i]) + SumHtEntries(kvs, i + 1)
RECURSIVE SumPacked(_, _)
SumPacked(kvs, i) ==
    IF i > Len(kvs) THEN 0 ELSE kvs[i].packed + SumPacked(kvs, i + 1)

\* get_local_job_data_stats: packed size and hash-table size of the list.
get_local_job_data_stats(kvs0) ==
    With(kvs0, LAMBDA kvs :
        [packed_size |-> SumPacked(kvs, 1),
         hash_table_size |-> get_actual_hashtab_capacity(SumHtEntries(kvs, 1))])

\* Significant bits of a float (24 of the 64 bits of a word in the build,
\* scaled down with the word): a size_t above 2^FLT_MANT_DIG is rounded when it
\* becomes a float.
FLT_MANT_DIG == WordBits - 6

RECURSIVE BitLen(_)
BitLen(n) == IF n = 0 THEN 0 ELSE 1 + BitLen(n \div 2)

\* n rounded to FLT_MANT_DIG significant bits, to nearest, ties to even.
RoundToFloat(n) ==
    IF n < Pow2(FLT_MANT_DIG) THEN n
    ELSE LET q == Pow2(BitLen(n) - FLT_MANT_DIG)
             lo == (n \div q) * q
         IN  IF 2 * (n - lo) < q THEN lo
             ELSE IF 2 * (n - lo) > q THEN lo + q
             ELSE IF (lo \div q) % 2 = 0 THEN lo ELSE lo + q

\* seg_size *= fluff: seg_size becomes a float, is multiplied by the float
\* 2.5 (the product, counted in halves, is rounded again) and is truncated
\* back to size_t; seg_size *= multiplier is exact for the multiplier 1.0.
segment_size_multiplier_x2 == 2
ApplyFluff(seg_size) ==
    (((RoundToFloat(RoundToFloat(seg_size) * fluff_x2) \div 2)
      * segment_size_multiplier_x2) \div 2)

\* Estimate of prepare_shmem_store_for_local_job_data.
JobSegSize(stats) ==
    ApplyFluff(SizeofSmdata + SizeofTma + SizeofSession + SizeofList
               + SizeofList + SizeofList + SizeofHashTable
               + SizeofHashTable
               + stats.hash_table_size * SizeofHashElement
               + stats.hash_table_size * (SizeofKval + SizeofValue)
               + stats.packed_size)

\* Estimate of server_store_modex.
ModexHtSize_flat(npeers) == modex_ht_per_peer
ModexHtSize(npeers) == modex_ht_per_peer * npeers
ModexSegSize(bytes_used, npeers) ==
    ApplyFluff(bytes_used * npeers + SizeofHashTable
               + ModexHtSize(npeers) * SizeofHashElement)

\* --------------------------------------------------------------------- TMA
\* tma_malloc / tma_calloc / tma_strdup / tma_memmove on the arena of a
\* segment: the address handed out and the segment with the cursor advanced.
\* `written` is the number of bytes the call writes from the address on.
tma_malloc(seg0, size) ==
    With(seg0, LAMBDA seg :
        [addr |-> seg.hdr.current_addr, written |-> 0,
         seg |-> [seg EXCEPT !.hdr.current_addr = addr_align(@, size)]])
tma_calloc(seg, nmemb, size) ==
    With((nmemb * size) % (SIZE_MAX + 1), LAMBDA real_size :
        [tma_malloc(seg, real_size) EXCEPT !.written = real_size])
\* tma_realloc: assert(false), then return NULL.  With NDEBUG the assertion
\* is compiled out and the call returns; the arena is not touched.
tma_realloc(seg, ptr, size, ndebug) ==
    [aborted |-> ~ndebug, addr |-> 0, written |-> 0, seg |-> seg]
\* tma_strdup that leaves no room for the terminating byte.
tma_strdup_short(seg, str) ==
    With(Len(str), LAMBDA size :
        [tma_malloc(seg, size) EXCEPT !.written = size])
\* A string is the sequence of its characters; strlen is its length.
tma_strdup(seg, str) ==
    With(Len(str) + 1, LAMBDA size :
        [tma_malloc(seg, size) EXCEPT !.written = size])
tma_memmove(seg, src, size) == [tma_malloc(seg, size) EXCEPT !.written = size]
tma_free(seg, ptr) == [addr |-> 0, written |-> 0, seg |-> seg]

\* job_smdata_construct: header of a JOB segment and its containers.
JobHeader(seg0, base, p, htsize) ==
    With(hash_table_capacity(htsize), LAMBDA cap :
    With(tma_malloc([seg0 EXCEPT !.hdr = [ZeroHdr EXCEPT !.current_addr =
                                              addr_align(base, SizeofSmdata),
                                          !.tma = p],
                                !.stored = 0],
                    SizeofList), LAMBDA a1 :
    With(tma_malloc(a1.seg, SizeofList), LAMBDA a2 :
    With(tma_malloc(a2.seg, SizeofList), LAMBDA a3 :
    With(tma_malloc(a3.seg, SizeofHashTable), LAMBDA a4 :
    With(tma_calloc(a4.seg, cap, SizeofHashElement), LAMBDA a5 :
        [a5.seg EXCEPT !.hdr.jobinfo = a1.addr, !.hdr.nodeinfo = a2.addr,
                       !.hdr.appinfo = a3.addr, !.hdr.local_hashtab = a4.addr,
                       !.hdr.ht_capacity = cap]))))))

job_smdata_construct(W0, p, ns, htsize) ==
    With(W0, LAMBDA W :
        LET base == W.jobs[p][ns].shmem[JOB].base_address
            ino == W.jobs[p][ns].shmem[JOB].ino
        IN  [rc |-> PMIX_SUCCESS,
             W |-> [W EXCEPT !.jobs[p][ns].sm[JOB] = base,
                             !.inodes[ino] = JobHeader(@, base, p, htsize)]])

\* modex_smdata_construct: header of a MODEX segment and its hash table.
ModexHeader(seg0, base, p, htsize) ==
    With(hash_table_capacity(htsize), LAMBDA cap :
    With(tma_malloc([seg0 EXCEPT !.hdr = [ZeroHdr EXCEPT !.current_addr =
                                              addr_align(base, SizeofSmmodex),
                                          !.tma = p],
                                !.stored = 0],
                    SizeofHashTable), LAMBDA a1 :
    With(tma_calloc(a1.seg, cap, SizeofHashElement), LAMBDA a2 :
        [a2.seg EXCEPT !.hdr.hashtab = a1.addr, !.hdr.ht_capacity = cap])))

modex_smdata_construct(W0, p, ns, htsize) ==
    With(W0, LAMBDA W :
        LET base == W.jobs[p][ns].shmem[MODEX].base_address
            ino == W.jobs[p][ns].shmem[MODEX].ino
        IN  [rc |-> PMIX_SUCCESS,
             W |-> [W EXCEPT !.jobs[p][ns].sm[MODEX] = base,
                             !.inodes[ino] = ModexHeader(@, base, p, htsize)]])

\* One key/value pair stored through the TMA into a container of the header.
StoreOne(seg) ==
    With(tma_malloc(seg, SizeofKval), LAMBDA a :
    With(tma_malloc(a.seg, SizeofValue), LAMBDA b :
        [b.seg EXCEPT !.stored = @ + 1]))
RECURSIVE StoreN(_, _)
StoreN(seg0, n) ==
    With(seg0, LAMBDA seg : IF n = 0 THEN seg ELSE StoreN(StoreOne(seg), n - 1))

\* ------------------------------------------------- shared-memory primitive
InodeInUse(W, i) == W.inodes[i].creator # ""
FreeInodes(W) == {i \in 1..NumInodes : ~InodeInUse(W, i)}

\* pmix_shmem_segment_create(shmem, size, path): create or open the file,
\* size it, record path and size.  `ok` is whether open and ftruncate work.
shmem_segment_create(W0, p, ns, role, size, path, ok) ==
    With(W0, LAMBDA W :
    With([old |-> W.files[path], free |-> FreeInodes(W)], LAMBDA v :
        IF ~ok \/ (v.old = 0 /\ v.free = {})
        THEN [rc |-> PMIX_ERROR, W |-> W]
        ELSE With(IF v.old # 0 THEN v.old
                  ELSE CHOOSE i \in v.free : \A j \in v.free : i <= j, LAMBDA ino :
             With(IF v.old # 0 THEN [W.inodes[ino] EXCEPT !.size = size]
                  ELSE [ZeroSeg EXCEPT !.size = size, !.creator = p], LAMBDA seg :
                 [rc |-> PMIX_SUCCESS,
                  W |-> Event([W EXCEPT !.files[path] = ino,
                                        !.inodes[ino] = seg,
                                        !.jobs[p][ns].shmem[role].size = size,
                                        !.jobs[p][ns].shmem[role].backing_path = path],
                              "create", ns, role)]))))

\* The address the kernel maps `len` bytes at when asked for `req`:
\* "ok" the requested one, "elsewhere" another free one, "fail" none (0).
FreeAddrs(mapped, len) == {a \in PageAddrs : RangeFree(mapped, a, len)}
KernelAddr(mapped, req, len, mode) ==
    With(FreeAddrs(mapped, len) \ {req}, LAMBDA other :
        IF mode = "ok" /\ RangeFree(mapped, req, len) THEN req
        ELSE IF mode = "elsewhere" /\ other # {}
        THEN CHOOSE a \in other : \A b \in other : a <= b
        ELSE 0)

\* pmix_shmem_segment_attach(shmem, requested, &actual): map the backing file.
shmem_segment_attach(W0, p, ns, role, req0, mode) ==
    With(W0, LAMBDA W :
    With(W.jobs[p][ns].shmem[role], LAMBDA sh :
    With([ino |-> IF sh.backing_path \in Paths THEN W.files[sh.backing_path] ELSE 0,
          actual |-> KernelAddr(W.maps[p], req0, MapLen(sh.size), mode)], LAMBDA v :
        IF v.actual = 0 \/ v.ino = 0 \/ sh.size = 0
        THEN [rc |-> PMIX_ERROR, mmap_addr |-> 0,
              W |-> [W EXCEPT !.envok = @ /\ (mode = "fail" \/ v.ino = 0 \/ sh.size = 0)]]
        ELSE [rc |-> PMIX_SUCCESS, mmap_addr |-> v.actual,
              W |-> Event([W EXCEPT
                        !.maps[p] = @ \cup {[ino |-> v.ino, addr |-> v.actual,
                                             size |-> sh.size]},
                        !.jobs[p][ns].shmem[role].base_address = v.actual,
                        !.jobs[p][ns].shmem[role].ino = v.ino],
                    "mmap", ns, role)])))

\* pmix_shmem_segment_detach(shmem): unmap what the object has mapped.
shmem_segment_detach(W0, p, ns, role) ==
    With(W0, LAMBDA W :
    With(W.jobs[p][ns].shmem[role], LAMBDA sh :
        IF sh.ino = 0 THEN W
        ELSE Event([W EXCEPT
                 !.maps[p] = {m \in @ : ~(m.ino = sh.ino /\ m.addr = sh.base_address)},
                 !.jobs[p][ns].shmem[role].ino = 0],
             "detach", ns, role)))

\* Release of a pmix_shmem_t: detach, and unlink the backing file when the
\* releasing process is the one that must destroy it.
shmem_destruct(W0, p, ns, role, release) ==
    With(W0, LAMBDA W :
    With(W.jobs[p][ns].shmem[role].backing_path, LAMBDA path :
    With(shmem_segment_detach(W, p, ns, role), LAMBDA W1 :
        IF release /\ path \in Paths /\ W1.files[path] # 0
        THEN Event([W1 EXCEPT !.files[path] = 0], "unlink", ns, role)
        ELSE W1)))

\* ---------------------------------------------------------------- segments
\* The mismatch branch of shmem_attach without the check of the address.
shmem_attach_nocheck(W, p, ns, role, req, mode) ==
    With(shmem_segment_attach(W, p, ns, role, req, mode), LAMBDA a :
        IF a.rc # PMIX_SUCCESS THEN [rc |-> a.rc, W |-> a.W]
        ELSE [rc |-> PMIX_SUCCESS, W |-> set_status(a.W, p, ns, role, ATTACHED)])

\* shmem_attach(job, shmem_id, req_addr)
shmem_attach(W, p, ns, role, req, mode) ==
    With(shmem_segment_attach(W, p, ns, role, req, mode), LAMBDA a :
        IF a.rc # PMIX_SUCCESS THEN [rc |-> a.rc, W |-> a.W]
        ELSE IF a.mmap_addr # req
        THEN [rc |-> PMIX_ERROR,
              W |-> shmem_segment_detach(Event(a.W, "mismatch", ns, role),
                                         p, ns, role)]
        ELSE [rc |-> PMIX_SUCCESS, W |-> set_status(a.W, p, ns, role, ATTACHED)])

\* init_client_side_sm_data(job, shmem_id)
init_client_side_sm_data(W0, p, ns, role) ==
    With(W0, LAMBDA W :
        IF role \in Roles
        THEN [rc |-> PMIX_SUCCESS,
              W |-> set_status([W EXCEPT !.jobs[p][ns].sm[role] =
                                      W.jobs[p][ns].shmem[role].base_address],
                               p, ns, role, READY_FOR_USE)]
        ELSE [rc |-> PMIX_ERROR, W |-> W])

\* shmem_segment_attach_and_init that installs the pointers whatever the
\* attach returned.
shmem_segment_attach_and_init_eager(W, p, ns, usb0, mode) ==
    With(usb0, LAMBDA usb :
    With(shmem_attach(
             [W EXCEPT !.jobs[p][ns].shmem[usb.smid].backing_path = usb.seg_path,
                       !.jobs[p][ns].shmem[usb.smid].size = usb.seg_size],
             p, ns, usb.smid, usb.seg_addr, mode), LAMBDA a :
        init_client_side_sm_data(a.W, p, ns, usb.smid)))

\* shmem_segment_attach_and_init(job, seginfo): seginfo is the unpacked blob.
shmem_segment_attach_and_init(W, p, ns, usb0, mode) ==
    With(usb0, LAMBDA usb :
    With(shmem_attach(
             [W EXCEPT !.jobs[p][ns].shmem[usb.smid].backing_path = usb.seg_path,
                       !.jobs[p][ns].shmem[usb.smid].size = usb.seg_size],
             p, ns, usb.smid, usb.seg_addr, mode), LAMBDA a :
        IF a.rc # PMIX_SUCCESS THEN a
        ELSE init_client_side_sm_data(a.W, p, ns, usb.smid)))

\* get_shmem_backing_path(job, id) in process p (getpid): no path when it does
\* not fit PMIX_PATH_MAX.
get_shmem_backing_path(p, ns, id, fits) == IF fits THEN <<ns, id, p>> ELSE NoPath

\* shmem_segment_create_and_attach(job, shmem_id, segment_name, segment_size).
\* e.fail names the step the environment lets fail, "none" for none of them.
shmem_segment_create_and_attach(W00, p, ns, role, segment_size, e) ==
    With(W00, LAMBDA W :
    With((segment_size + pad_amount_to_page(segment_size)) % (SIZE_MAX + 1),
         LAMBDA real_segsize :
    With(vmem_find_hole(W, p, real_segsize), LAMBDA holes :
    With(Event(W, "create_and_attach", ns, role), LAMBDA W0 :
    With(get_shmem_backing_path(p, ns, SegName(role), e.fail # "path"), LAMBDA path :
        IF e.fail = "hole" \/ holes = {}
        THEN [rc |-> PMIX_ERR_NOT_FOUND, W |-> W0]
        ELSE IF path = NoPath THEN [rc |-> PMIX_ERROR, W |-> W0]
        ELSE With(shmem_segment_create(W0, p, ns, role, real_segsize, path,
                                       e.fail # "create"), LAMBDA c :
                 IF c.rc # PMIX_SUCCESS THEN c
                 ELSE With(shmem_attach(c.W, p, ns, role,
                               CHOOSE a \in holes : \A b \in holes : a <= b,
                               IF e.fail = "attach" THEN "fail"
                               ELSE IF e.fail = "mismatch" THEN "elsewhere"
                               ELSE "ok"), LAMBDA a :
                          IF a.rc = PMIX_SUCCESS
                          THEN [rc |-> a.rc,
                                W |-> set_status(a.W, p, ns, role, RELEASE)]
                          ELSE a)))))))

\* ------------------------------------------------------- connection blob
SmidNum(role) == IF role = JOB THEN 0 ELSE IF role = MODEX THEN 1 ELSE 2
SmidOf(n) == IF n = 0 THEN JOB ELSE IF n = 1 THEN MODEX ELSE INVALID

KV(key, val) == [key |-> key, val |-> val]

\* pack_shmem_connection_info: the five string-valued entries of a blob.
pack_shmem_connection_info(W, p, ns, role) ==
    With(W.jobs[p][ns].shmem[role], LAMBDA sh :
        <<KV(SHMEM_SEG_NSID_KEY, <<ns>>),
          KV(SHMEM_SEG_SMID_KEY, FormatZd(SmidNum(role))),
          KV(SHMEM_SEG_PATH_KEY, sh.backing_path),
          KV(SHMEM_SEG_SIZE_KEY, FormatZx(sh.size)),
          KV(SHMEM_SEG_ADDR_KEY, FormatZx(sh.base_address))>>)

\* A key/value entry of a reply buffer; bo is the payload of a byte object.
Kval(key, type, bo) == [key |-> key, type |-> type, bo |-> bo]
EmptyReply == [nspace |-> <<>>, kvs |-> <<>>]
NoBkt == [cached |-> FALSE, buf |-> EmptyReply]

\* The blobs in flight once b is packed: b takes the place of an older blob
\* of the same namespace and role.
Sent(W, b0) ==
    With(b0, LAMBDA b :
        {x \in W.wire : ~(x.ns = b.ns /\ x.role = b.role)} \cup {b})

\* What a packed blob is a blob of: the segment the server described.
WireRec(W, p, ns, role, bo) ==
    With(W.jobs[p][ns].shmem[role], LAMBDA sh :
        [bo |-> bo, ns |-> ns, role |-> role, ino |-> sh.ino,
         base |-> sh.base_address, size |-> sh.size, path |-> sh.backing_path])

\* pack_shmem_seg_blob that does not look at READY_FOR_USE.
pack_shmem_seg_blob_always(W0, p, ns, role, reply0, packok) ==
    With([W |-> W0, reply |-> reply0], LAMBDA v :
        IF ~packok THEN [rc |-> PMIX_ERR_NOMEM, W |-> v.W, reply |-> v.reply]
        ELSE With(pack_shmem_connection_info(v.W, p, ns, role), LAMBDA bo :
                 [rc |-> PMIX_SUCCESS,
                  W |-> Event([v.W EXCEPT !.wire =
                                   Sent(v.W, WireRec(v.W, p, ns, role, bo))],
                              "pack", ns, role),
                  reply |-> [v.reply EXCEPT !.kvs =
                                Append(@, Kval(SHMEM_SEG_BLOB_KEY,
                                               PMIX_BYTE_OBJECT, bo))]]))

\* pack_shmem_seg_blob(job, shmem_id, peer, reply)
pack_shmem_seg_blob(W0, p, ns, role, reply0, packok) ==
    With([W |-> W0, reply |-> reply0], LAMBDA v :
        IF ~has_status(v.W, p, ns, role, READY_FOR_USE)
        THEN [rc |-> PMIX_SUCCESS, W |-> v.W, reply |-> v.reply]
        ELSE IF ~packok THEN [rc |-> PMIX_ERR_NOMEM, W |-> v.W, reply |-> v.reply]
        ELSE With(pack_shmem_connection_info(v.W, p, ns, role), LAMBDA bo :
                 [rc |-> PMIX_SUCCESS,
                  W |-> Event([v.W EXCEPT !.wire =
                                   Sent(v.W, WireRec(v.W, p, ns, role, bo))],
                              "pack", ns, role),
                  reply |-> [v.reply EXCEPT !.kvs =
                                Append(@, Kval(SHMEM_SEG_BLOB_KEY,
                                               PMIX_BYTE_OBJECT, bo))]]))

IsLauncher(p) == ptype[p] = "launcher"
IsServer(p) == ptype[p] = "server"

\* publish_shmem_connection_info that retains every reply it packs.
publish_shmem_connection_info_retain(W0, p, ns, reply, e) ==
    With(W0, LAMBDA W :
        IF e.fail = "nspack" THEN [rc |-> PMIX_ERR_NOMEM, W |-> W, reply |-> reply]
        ELSE With(pack_shmem_seg_blob(W, p, ns, JOB,
                                      [reply EXCEPT !.nspace = <<ns>>],
                                      e.fail # "pack"), LAMBDA b :
                 IF b.rc # PMIX_SUCCESS THEN b
                 ELSE [b EXCEPT !.W = Event([b.W EXCEPT !.jobbkt[ns] =
                                                [cached |-> TRUE, buf |-> b.reply]],
                                            "retain", ns, JOB)]))

\* publish_shmem_connection_info(job, peer, reply)
publish_shmem_connection_info(W0, p, ns, reply, e) ==
    With(W0, LAMBDA W :
        IF e.fail = "nspack" THEN [rc |-> PMIX_ERR_NOMEM, W |-> W, reply |-> reply]
        ELSE With(pack_shmem_seg_blob(W, p, ns, JOB,
                                      [reply EXCEPT !.nspace = <<ns>>],
                                      e.fail # "pack"), LAMBDA b :
                 IF b.rc # PMIX_SUCCESS THEN b
                 ELSE IF IsLauncher(p) \/ nlocalprocs[ns] > 1
                 THEN [b EXCEPT !.W = Event([b.W EXCEPT !.jobbkt[ns] =
                                                [cached |-> TRUE, buf |-> b.reply]],
                                            "retain", ns, JOB)]
                 ELSE b))

\* pmix_gds_shmem_store_local_job_data_in_shmem(job, kvs): store the entries
\* into the containers of the header; the segment is ready when all are in.
store_local_job_data_in_shmem(W0, p, ns, kvs, k) ==
    With(W0, LAMBDA W :
    With(Event([W EXCEPT !.inodes[W.jobs[p][ns].shmem[JOB].ino] = StoreN(@, k)],
               "store", ns, JOB), LAMBDA W1 :
        IF k < Len(kvs) THEN [rc |-> PMIX_ERROR, W |-> W1]
        ELSE [rc |-> PMIX_SUCCESS,
              W |-> set_status(W1, p, ns, JOB, READY_FOR_USE)]))

\* prepare_shmem_store_for_local_job_data(job, stats)
prepare_shmem_store_for_local_job_data(W, p, ns, stats, e) ==
    With(shmem_segment_create_and_attach(W, p, ns, JOB, JobSegSize(stats), e),
         LAMBDA c :
        IF c.rc # PMIX_SUCCESS THEN c
        ELSE job_smdata_construct(Event(c.W, "construct", ns, JOB), p, ns,
                                  stats.hash_table_size))

\* server_register_new_job_info(peer, reply)
server_register_new_job_info(W, p, ns, e) ==
    LET Fail(rc, V) == [rc |-> rc, W |-> V, reply |-> EmptyReply]
    IN  With(get_job_tracker(W, p, ns, TRUE), LAMBDA t :
        With(JobData(ns), LAMBDA kvs :
        With(get_local_job_data_stats(kvs), LAMBDA stats :
            IF e.fail = "fetch" THEN Fail(PMIX_ERR_NOT_FOUND, t.W)
            ELSE IF e.fail = "stats" THEN Fail(PMIX_ERR_NOMEM, t.W)
            ELSE With(prepare_shmem_store_for_local_job_data(t.W, p, ns, stats, e),
                      LAMBDA pr :
                     IF pr.rc # PMIX_SUCCESS THEN Fail(pr.rc, pr.W)
                     ELSE With(store_local_job_data_in_shmem(pr.W, p, ns, kvs,
                                   IF e.fail = "store" THEN e.k ELSE Len(kvs)),
                               LAMBDA st :
                              IF st.rc # PMIX_SUCCESS THEN Fail(st.rc, st.W)
                              ELSE publish_shmem_connection_info(
                                       st.W, p, ns, EmptyReply, e))))))

\* server_register_job_info that does not look for a cached reply.
server_register_job_info_nocache(W0, p, ns, e) ==
    With(W0, LAMBDA W :
        IF ~IsServer(p) /\ ~IsLauncher(p)
        THEN [rc |-> PMIX_ERR_NOT_SUPPORTED, W |-> W, reply |-> EmptyReply]
        ELSE server_register_new_job_info(W, p, ns, e))

\* server_register_job_info that releases the cache at every cached delivery.
server_register_job_info_early(W0, p, ns, e) ==
    With(W0, LAMBDA W :
        IF ~IsServer(p) /\ ~IsLauncher(p)
        THEN [rc |-> PMIX_ERR_NOT_SUPPORTED, W |-> W, reply |-> EmptyReply]
        ELSE IF W.jobbkt[ns].cached
        THEN [rc |-> IF e.fail # "copy" THEN PMIX_SUCCESS ELSE PMIX_ERR_NOMEM,
              W |-> Event(Event([W EXCEPT !.jobbkt[ns] = NoBkt],
                                "uncache", ns, JOB),
                          "cached", ns, JOB),
              reply |-> IF e.fail # "copy" THEN W.jobbkt[ns].buf ELSE EmptyReply]
        ELSE server_register_new_job_info(W, p, ns, e))

\* server_register_job_info(peer, reply)
server_register_job_info(W0, p, ns, e) ==
    With(W0, LAMBDA W :
        IF ~IsServer(p) /\ ~IsLauncher(p)
        THEN [rc |-> PMIX_ERR_NOT_SUPPORTED, W |-> W, reply |-> EmptyReply]
        ELSE IF W.jobbkt[ns].cached
        THEN LET copied == e.fail # "copy"
             IN  [rc |-> IF copied THEN PMIX_SUCCESS ELSE PMIX_ERR_NOMEM,
                  W |-> Event(IF ~IsLauncher(p) /\ ndelivered[ns] = nlocalprocs[ns]
                              THEN Event([W EXCEPT !.jobbkt[ns] = NoBkt],
                                         "uncache", ns, JOB)
                              ELSE W,
                              "cached", ns, JOB),
                  reply |-> IF copied THEN W.jobbkt[ns].buf ELSE EmptyReply]
        ELSE server_register_new_job_info(W, p, ns, e))

\* ------------------------------------------------------------------- modex
\* pmix_gds_base_store_modex with pmix_gds_shmem_store_modex_in_shmem as the
\* callback: the keys of the payload go into the hash table of the MODEX
\* segment; the segment is ready when they are in.
store_modex_in_shmem(W0, p, ns, ok) ==
    With(W0, LAMBDA W :
        IF ~ok THEN [rc |-> PMIX_ERROR, W |-> W]
        ELSE LET ino == W.jobs[p][ns].shmem[MODEX].ino
                 full == W.inodes[ino].stored >= MaxFences
             IN  [rc |-> PMIX_SUCCESS,
                  W |-> set_status(Event([W EXCEPT !.inodes[ino] = StoreOne(@),
                                                   !.envok = @ /\ ~full],
                                         "store", ns, MODEX),
                                   p, ns, MODEX, READY_FOR_USE)])

\* server_store_modex without the test of ATTACHED.
server_store_modex_always(W0, p, ns, e) ==
    With(W0, LAMBDA W :
    With(get_job_tracker(W, p, ns, FALSE), LAMBDA t :
        IF t.rc # PMIX_SUCCESS THEN [rc |-> t.rc, W |-> W]
        ELSE With(shmem_segment_create_and_attach(W, p, ns, MODEX,
                      ModexSegSize(ModexBytes(ns), NProcs(ns)), e), LAMBDA c :
                 IF c.rc # PMIX_SUCCESS THEN c
                 ELSE With(modex_smdata_construct(
                               Event(c.W, "construct", ns, MODEX),
                               p, ns, ModexHtSize(NProcs(ns))), LAMBDA m :
                          store_modex_in_shmem(m.W, p, ns, e.fail # "store")))))

\* server_store_modex(ns, buff, cbdata)
server_store_modex(W0, p, ns, e) ==
    With(W0, LAMBDA W :
    With(get_job_tracker(W, p, ns, FALSE), LAMBDA t :
        IF t.rc # PMIX_SUCCESS THEN [rc |-> t.rc, W |-> W]
        ELSE IF ~has_status(W, p, ns, MODEX, ATTACHED)
        THEN With(shmem_segment_create_and_attach(W, p, ns, MODEX,
                      ModexSegSize(ModexBytes(ns), NProcs(ns)), e), LAMBDA c :
                 IF c.rc # PMIX_SUCCESS THEN c
                 ELSE With(modex_smdata_construct(
                               Event(c.W, "construct", ns, MODEX),
                               p, ns, ModexHtSize(NProcs(ns))), LAMBDA m :
                          store_modex_in_shmem(m.W, p, ns, e.fail # "store")))
        ELSE store_modex_in_shmem(W, p, ns, e.fail # "store")))

\* ---------------------------------------------------------------- teardown
\* job_destruct(job): both roles in the order of shmem_ids.
job_destruct_role(W0, p, ns, role) ==
    With(W0, LAMBDA W :
        shmem_destruct(clearall_status(W, p, ns, role), p, ns, role,
                       has_status(W, p, ns, role, RELEASE)))
\* job_destruct that stops after the first role.
job_destruct_first(W, p, ns) == job_destruct_role(W, p, ns, shmem_ids[1])
job_destruct(W, p, ns) ==
    job_destruct_role(job_destruct_role(W, p, ns, shmem_ids[1]), p, ns, shmem_ids[2])

\* del_nspace(nspace)
del_nspace(W0, p, ns) ==
    With(W0, LAMBDA W :
        IF W.jobs[p][ns].live
        THEN [rc |-> PMIX_SUCCESS,
              W |-> [job_destruct(Event(W, "destruct", ns, INVALID), p, ns)
                        EXCEPT !.jobs[p][ns] = NoJob]]
        ELSE [rc |-> PMIX_SUCCESS, W |-> W])

\* module_finalize(): every tracker of the job list is destructed.
RECURSIVE DestructAll(_, _, _)
DestructAll(W0, p, todo0) ==
    With([W |-> W0, todo |-> todo0], LAMBDA v :
        IF v.todo = {} THEN v.W
        ELSE With(CHOOSE n \in v.todo : TRUE, LAMBDA ns :
                 DestructAll(del_nspace(v.W, p, ns).W, p, v.todo \ {ns})))
module_finalize(W, p) == [rc |-> PMIX_SUCCESS, W |-> DestructAll(W, p, NS)]

\* ---------------------------------------------------------- modex complete
\* server_mark_modex_complete(peer, nslist, reply): i is the place in nslist.
RECURSIVE mark_modex_loop(_, _, _, _, _, _)
mark_modex_loop(W0, p, nslist, i, reply0, e) ==
    With([W |-> W0, reply |-> reply0], LAMBDA v :
        IF i > Len(nslist)
        THEN [rc |-> PMIX_SUCCESS, W |-> v.W, reply |-> v.reply]
        ELSE With(get_job_tracker(v.W, p, nslist[i], FALSE), LAMBDA t :
             IF t.rc # PMIX_SUCCESS
             THEN [rc |-> t.rc, W |-> v.W, reply |-> v.reply]
             ELSE With(pack_shmem_seg_blob(v.W, p, nslist[i], JOB, v.reply,
                                           ~(e.fail = "pack" /\ e.k = i)),
                       LAMBDA j :
                  IF j.rc # PMIX_SUCCESS THEN j
                  ELSE With(pack_shmem_seg_blob(j.W, p, nslist[i], MODEX, j.reply,
                                                ~(e.fail = "pack2" /\ e.k = i)),
                            LAMBDA m :
                       IF m.rc # PMIX_SUCCESS THEN m
                       ELSE mark_modex_loop(m.W, p, nslist, i + 1, m.reply, e)))))
server_mark_modex_complete(W, p, nslist, e) ==
    mark_modex_loop(W, p, nslist, 1, EmptyReply, e)

\* ------------------------------------------------------------- client side
PMIX_SESSION_INFO_ARRAY == "pmix.ssn.arr"
PMIX_APP_INFO_ARRAY == "pmix.app.arr"

\* unpacked_seg_blob_construct
unpacked_seg_blob_construct ==
    [nsid |-> <<>>, smid |-> INVALID, seg_path |-> <<>>,
     seg_size |-> 0, seg_addr |-> 0]

\* The loop of unpack_shmem_connection_info that reads over a key it does
\* not know.
RECURSIVE unpack_loop_lenient(_, _, _)
unpack_loop_lenient(bo, i, usb0) ==
    With(usb0, LAMBDA usb :
        IF i > Len(bo)
        THEN [rc |-> PMIX_ERR_UNPACK_READ_PAST_END_OF_BUFFER, usb |-> usb]
        ELSE With(bo[i], LAMBDA kv :
             IF kv.key = SHMEM_SEG_NSID_KEY
             THEN unpack_loop_lenient(bo, i + 1, [usb EXCEPT !.nsid = kv.val])
             ELSE IF kv.key = SHMEM_SEG_SMID_KEY
             THEN unpack_loop_lenient(bo, i + 1,
                      [usb EXCEPT !.smid = SmidOf(strtost(kv.val, 10).val)])
             ELSE IF kv.key = SHMEM_SEG_PATH_KEY
             THEN unpack_loop_lenient(bo, i + 1, [usb EXCEPT !.seg_path = kv.val])
             ELSE IF kv.key = SHMEM_SEG_SIZE_KEY
             THEN unpack_loop_lenient(bo, i + 1,
                      [usb EXCEPT !.seg_size = strtost(kv.val, 16).val])
             ELSE IF kv.key = SHMEM_SEG_ADDR_KEY
             THEN unpack_loop_lenient(bo, i + 1,
                      [usb EXCEPT !.seg_addr = strtost(kv.val, 16).val])
             ELSE unpack_loop_lenient(bo, i + 1, usb)))

\* The loop of unpack_shmem_connection_info over the entries of the blob.
RECURSIVE unpack_loop(_, _, _)
unpack_loop(bo, i, usb0) ==
    With(usb0, LAMBDA usb :
        IF i > Len(bo)
        THEN [rc |-> PMIX_ERR_UNPACK_READ_PAST_END_OF_BUFFER, usb |-> usb]
        ELSE With(bo[i], LAMBDA kv :
             IF kv.key = SHMEM_SEG_NSID_KEY
             THEN unpack_loop(bo, i + 1, [usb EXCEPT !.nsid = kv.val])
             ELSE IF kv.key = SHMEM_SEG_SMID_KEY
             THEN With(strtost(kv.val, 10), LAMBDA r :
                      IF r.rc # PMIX_SUCCESS THEN [rc |-> r.rc, usb |-> usb]
                      ELSE unpack_loop(bo, i + 1,
                                       [usb EXCEPT !.smid = SmidOf(r.val)]))
             ELSE IF kv.key = SHMEM_SEG_PATH_KEY
             THEN unpack_loop(bo, i + 1, [usb EXCEPT !.seg_path = kv.val])
             ELSE IF kv.key = SHMEM_SEG_SIZE_KEY
             THEN With(strtost(kv.val, 16), LAMBDA r :
                      IF r.rc # PMIX_SUCCESS
                      THEN [rc |-> r.rc, usb |-> [usb EXCEPT !.seg_size = 0]]
                      ELSE unpack_loop(bo, i + 1, [usb EXCEPT !.seg_size = r.val]))
             ELSE IF kv.key = SHMEM_SEG_ADDR_KEY
             THEN With(strtost(kv.val, 16), LAMBDA r :
                      IF r.rc # PMIX_SUCCESS
                      THEN [rc |-> r.rc, usb |-> [usb EXCEPT !.seg_addr = 0]]
                      ELSE unpack_loop(bo, i + 1, [usb EXCEPT !.seg_addr = r.val]))
             ELSE [rc |-> PMIX_ERR_BAD_PARAM, usb |-> usb]))

\* unpack_shmem_connection_info(kvbo, usb)
unpack_shmem_connection_info(kvbo) ==
    IF kvbo.type # PMIX_BYTE_OBJECT
    THEN [rc |-> PMIX_ERR_TYPE_MISMATCH, usb |-> unpacked_seg_blob_construct]
    ELSE With(unpack_loop(kvbo.bo, 1, unpacked_seg_blob_construct), LAMBDA r :
             IF r.rc # PMIX_ERR_UNPACK_READ_PAST_END_OF_BUFFER
             THEN [rc |-> PMIX_ERR_UNPACK_FAILURE, usb |-> r.usb]
             ELSE [rc |-> PMIX_SUCCESS, usb |-> r.usb])

\* unpack_shmem_seg_blob_and_attach_if_necessary(kvbo)
unpack_shmem_seg_blob_and_attach_if_necessary(W0, p, kvbo, mode) ==
    With(W0, LAMBDA W :
    With(unpack_shmem_connection_info(kvbo), LAMBDA u :
        IF u.rc # PMIX_SUCCESS THEN [rc |-> u.rc, W |-> W]
        ELSE IF Len(u.usb.nsid) # 1 \/ u.usb.nsid[1] \notin NS
        THEN [rc |-> PMIX_ERROR, W |-> [W EXCEPT !.envok = FALSE]]
        ELSE With(get_job_tracker(W, p, u.usb.nsid[1], TRUE), LAMBDA t :
             LET ns == u.usb.nsid[1]
             IN  IF u.usb.smid \notin Roles
                 THEN [rc |-> PMIX_ERROR, W |-> t.W]
                 ELSE IF has_status(t.W, p, ns, u.usb.smid, ATTACHED)
                 THEN [rc |-> PMIX_SUCCESS, W |-> t.W]
                 ELSE shmem_segment_attach_and_init(
                          Event(t.W, "attach_and_init", ns, u.usb.smid),
                          p, ns, u.usb, mode))))

\* The loop of store_job_info (skip_info) and of client_recv_modex_complete
\* over the entries of the buffer; e.k is the entry whose mapping e.mode rules.
\* What became of each entry is on record: blob_ok, blob_err, skip, bad_key.
RECURSIVE recv_loop(_, _, _, _, _, _)
recv_loop(W0, p, buff, i, e, skip_info) ==
    With(W0, LAMBDA W :
        IF i > Len(buff)
        THEN [rc |-> PMIX_ERR_UNPACK_READ_PAST_END_OF_BUFFER, W |-> W]
        ELSE With(buff[i], LAMBDA kval :
             IF kval.key = SHMEM_SEG_BLOB_KEY
             THEN With(unpack_shmem_seg_blob_and_attach_if_necessary(
                           W, p, kval, IF e.k = i THEN e.mode ELSE "ok"),
                       LAMBDA r :
                      IF r.rc # PMIX_SUCCESS
                      THEN [r EXCEPT !.W = Event(@, "blob_err", "", INVALID)]
                      ELSE recv_loop(Event(r.W, "blob_ok", "", INVALID),
                                     p, buff, i + 1, e, skip_info))
             ELSE IF skip_info /\ kval.key \in {PMIX_SESSION_INFO_ARRAY,
                                                PMIX_NODE_INFO_ARRAY,
                                                PMIX_APP_INFO_ARRAY}
             THEN recv_loop(Event(W, "skip", "", INVALID),
                            p, buff, i + 1, e, skip_info)
             ELSE [rc |-> PMIX_ERR_BAD_PARAM,
                   W |-> Event(W, "bad_key", "", INVALID)]))

\* store_job_info that takes the end of the buffer for a failure too.
store_job_info_strict(W, p, buff, e) ==
    [rc |-> PMIX_ERR_UNPACK_FAILURE, W |-> recv_loop(W, p, buff, 1, e, TRUE).W]

\* store_job_info that takes back what the entries before a failure did.
store_job_info_undoing(W, p, buff, e) ==
    With(recv_loop(W, p, buff, 1, e, TRUE), LAMBDA r :
        IF r.rc # PMIX_ERR_UNPACK_READ_PAST_END_OF_BUFFER
        THEN [rc |-> PMIX_ERR_UNPACK_FAILURE, W |-> [W EXCEPT !.ev = r.W.ev]]
        ELSE [rc |-> PMIX_SUCCESS, W |-> r.W])

\* store_job_info(nspace, buff)
store_job_info(W, p, buff, e) ==
    With(recv_loop(W, p, buff, 1, e, TRUE), LAMBDA r :
        IF r.rc # PMIX_ERR_UNPACK_READ_PAST_END_OF_BUFFER
        THEN [rc |-> PMIX_ERR_UNPACK_FAILURE, W |-> r.W]
        ELSE [rc |-> PMIX_SUCCESS, W |-> r.W])

\* client_recv_modex_complete that skips the info arrays as store_job_info does.
client_recv_modex_complete_skipping(W, p, buff, e) ==
    store_job_info(W, p, buff, e)

\* client_recv_modex_complete(buff)
client_recv_modex_complete(W, p, buff, e) ==
    With(recv_loop(W, p, buff, 1, e, FALSE), LAMBDA r :
        IF r.rc # PMIX_ERR_UNPACK_READ_PAST_END_OF_BUFFER
        THEN [rc |-> PMIX_ERR_UNPACK_FAILURE, W |-> r.W]
        ELSE [rc |-> PMIX_SUCCESS, W |-> r.W])

\* ----------------------------------------------------------- specification
Env(fail, k, mode) == [fail |-> fail, k |-> k, mode |-> mode]
NoEnv == Env("none", 0, "ok")

\* What the environment may do to a call, per entry point.  The second
\* namespace sees no failure and no fence: it is there to be left alone.
RegisterEnvs(ns) ==
    IF ns = "nsA"
    THEN {Env(f, 0, "ok") : f \in {"none", "fetch", "stats", "hole", "path",
                                   "create", "attach", "mismatch", "nspack",
                                   "pack", "copy"}}
         \cup {Env("store", 1, "ok")}
    ELSE {NoEnv}
ModexNS == {"nsA"}
ModexEnvs ==
    {Env(f, 0, "ok") : f \in {"none", "hole", "path", "create", "attach",
                              "mismatch", "store"}}
NsLists == {<<"nsA">>, <<"nsB">>, <<"nsA", "nsB">>}
MarkEnvs == {NoEnv, Env("pack", 1, "ok"), Env("pack2", 1, "ok")}
RecvEnvs == {NoEnv, Env("none", 1, "fail"), Env("none", 1, "elsewhere"),
             Env("none", 2, "fail")}

\* Buffers a client is handed: an entry the server packed, or an entry of a
\* key that is not a blob.
BlobEntries == {Kval(SHMEM_SEG_BLOB_KEY, PMIX_BYTE_OBJECT, b.bo) : b \in wire}
OtherEntries == {Kval(PMIX_NODE_INFO_ARRAY, PMIX_DATA_ARRAY, <<>>)}
Buffers == {<<x>> : x \in BlobEntries \cup OtherEntries}

Last(op, p, nss, rc, reply, ev) ==
    [op |-> op, p |-> p, nss |-> nss, rc |-> rc, reply |-> reply, ev |-> ev]

\* No call has results pending.
Idle == Last("idle", "", <<>>, PMIX_SUCCESS, EmptyReply, <<>>)

\* The state after a call that leaves the world W.
Commit(W) ==
    /\ W.envok
    /\ ncalls' = ncalls + 1
    /\ jobs' = W.jobs
    /\ files' = W.files
    /\ inodes' = W.inodes
    /\ maps' = W.maps
    /\ wire' = W.wire
    /\ jobbkt' = W.jobbkt

Init ==
    /\ ptype \in {[p \in Procs |-> IF p = "srv" THEN t ELSE "client"] :
                       t \in {"server", "launcher"}}
    /\ nlocalprocs \in {f \in [NS -> {1, MaxLocalProcs}] : f["nsB"] = 1}
    /\ ndelivered = [ns \in NS |-> 0]
    /\ jobbkt = [ns \in NS |-> NoBkt]
    /\ jobs = [p \in Procs |-> [ns \in NS |-> NoJob]]
    /\ files = [path \in Paths |-> 0]
    /\ inodes = [i \in 1..NumInodes |-> ZeroSeg]
    /\ maps = [p \in Procs |-> {}]
    /\ wire = {}
    /\ ncalls = 0
    /\ last = Idle

RegisterJobInfo(p, ns, e) ==
    /\ last = Idle
    /\ ncalls < MaxCalls
    /\ (e.fail = "copy") => jobbkt[ns].cached
    /\ jobbkt[ns].cached => e.fail \in {"none", "copy"}
    /\ \E r \in {server_register_job_info(World, p, ns, e)} :
           /\ Commit(r.W)
           /\ last' = Last("register_job_info", p, <<ns>>, r.rc, r.reply, r.W.ev)
    /\ UNCHANGED <<ptype, nlocalprocs, ndelivered>>

\* The caller counts a delivery of the cached job info to a local peer.
Deliver(ns) ==
    /\ last = Idle
    /\ jobbkt[ns].cached
    /\ ndelivered[ns] < nlocalprocs[ns]
    /\ ndelivered' = [ndelivered EXCEPT ![ns] = @ + 1]
    /\ UNCHANGED <<ptype, nlocalprocs, jobbkt, jobs, files, inodes, maps, wire,
                   ncalls, last>>

StoreModex(p, ns, e) ==
    /\ last = Idle
    /\ ncalls < MaxCalls
    /\ ATTACHED \in jobs[p][ns].status[MODEX] => e.fail \in {"none", "store"}
    /\ \E r \in {server_store_modex(World, p, ns, e)} :
           /\ Commit(r.W)
           /\ last' = Last("store_modex", p, <<ns>>, r.rc, EmptyReply, r.W.ev)
    /\ UNCHANGED <<ptype, nlocalprocs, ndelivered>>

MarkModexComplete(p, nslist, e) ==
    /\ last = Idle
    /\ ncalls < MaxCalls
    /\ \E r \in {server_mark_modex_complete(World, p, nslist, e)} :
           /\ Commit(r.W)
           /\ last' = Last("mark_modex_complete", p, nslist, r.rc, r.reply, r.W.ev)
    /\ UNCHANGED <<ptype, nlocalprocs, ndelivered>>

DelNspace(p, ns) ==
    /\ last = Idle
    /\ ncalls < MaxCalls
    /\ \E r \in {del_nspace(World, p, ns)} :
           /\ Commit(r.W)
           /\ last' = Last("del_nspace", p, <<ns>>, r.rc, EmptyReply, r.W.ev)
    /\ UNCHANGED <<ptype, nlocalprocs, ndelivered>>

ModuleFinalize(p) ==
    /\ last = Idle
    /\ ncalls < MaxCalls
    /\ \E r \in {module_finalize(World, p)} :
           /\ Commit(r.W)
           /\ last' = Last("module_finalize", p, <<>>, r.rc, EmptyReply, r.W.ev)
    /\ UNCHANGED <<ptype, nlocalprocs, ndelivered>>

StoreJobInfo(p, buff, e) ==
    /\ last = Idle
    /\ ncalls < MaxCalls
    /\ (e.mode # "ok") => (e.k <= Len(buff) /\ buff[e.k].key = SHMEM_SEG_BLOB_KEY)
    /\ \E r \in {store_job_info(World, p, buff, e)} :
           /\ Commit(r.W)
           /\ last' = Last("store_job_info", p, <<>>, r.rc,
                           [nspace |-> <<>>, kvs |-> buff], r.W.ev)
    /\ UNCHANGED <<ptype, nlocalprocs, ndelivered>>

RecvModexComplete(p, buff, e) ==
    /\ last = Idle
    /\ ncalls < MaxCalls
    /\ (e.mode # "ok") => (e.k <= Len(buff) /\ buff[e.k].key = SHMEM_SEG_BLOB_KEY)
    /\ \E r \in {client_recv_modex_complete(World, p, buff, e)} :
           /\ Commit(r.W)
           /\ last' = Last("recv_modex_complete", p, <<>>, r.rc,
                           [nspace |-> <<>>, kvs |-> buff], r.W.ev)
    /\ UNCHANGED <<ptype, nlocalprocs, ndelivered>>

\* The caller takes the results of the call that has returned.
Return ==
    /\ last # Idle
    /\ last' = Idle
    /\ UNCHANGED <<ptype, nlocalprocs, ndelivered, jobbkt, jobs, files, inodes,
                   maps, wire, ncalls>>

Next ==
    \/ \E ns \in NS : \E e \in RegisterEnvs(ns) : RegisterJobInfo("srv", ns, e)
    \/ Deliver("nsA")
    \/ \E ns \in ModexNS, e \in ModexEnvs : StoreModex("srv", ns, e)
    \/ \E nslist \in NsLists, e \in MarkEnvs : MarkModexComplete("srv", nslist, e)
    \/ \E p \in Procs, ns \in NS : DelNspace(p, ns)
    \/ \E p \in Procs : ModuleFinalize(p)
    \/ \E c \in Clients, buff \in Buffers, e \in RecvEnvs : StoreJobInfo(c, buff, e)
    \/ \E c \in Clients, buff \in Buffers, e \in RecvEnvs :
           RecvModexComplete(c, buff, e)
    \/ Return

Spec == Init /\ [][Next]_vars

\* -------------------------------------------- the connection blob by itself
\* Sizes and addresses of the whole range of a size_t.
Words == {0, 1, 10, 255, PageSize, LLONG_MAX, LLONG_MAX + 1, SIZE_MAX}

\* A server with one tracker, whose segment of one role has any path, any
\* size and any base address.
CodecInit ==
    /\ ptype = [p \in Procs |-> IF p = "srv" THEN "server" ELSE "client"]
    /\ nlocalprocs = [ns \in NS |-> 1]
    /\ ndelivered = [ns \in NS |-> 0]
    /\ jobbkt = [ns \in NS |-> NoBkt]
    /\ \E ns \in NS, role \in Roles, path \in Paths, size \in Words, addr \in Words :
           jobs = [p \in Procs |-> [n \in NS |->
                      IF p = "srv" /\ n = ns
                      THEN [job_construct EXCEPT !.shmem[role] =
                                [backing_path |-> path, size |-> size,
                                 base_address |-> addr, ino |-> 0]]
                      ELSE NoJob]]
    /\ files = [path \in Paths |-> 0]
    /\ inodes = [i \in 1..NumInodes |-> ZeroSeg]
    /\ maps = [p \in Procs |-> {}]
    /\ wire = {}
    /\ ncalls = 0
    /\ last = Idle

\* pack_shmem_connection_info of a role of the tracker into a byte object.
PackInfo(p, ns, role) ==
    /\ last = Idle
    /\ jobs[p][ns].live
    /\ last' = Last("pack_shmem_connection_info", p, <<ns>>, PMIX_SUCCESS,
                    [nspace |-> <<>>,
                     kvs |-> <<Kval(SHMEM_SEG_BLOB_KEY, PMIX_BYTE_OBJECT,
                                    pack_shmem_connection_info(World, p, ns, role))>>],
                    <<[e |-> "pack", ns |-> ns, role |-> role]>>)
    /\ UNCHANGED <<ptype, nlocalprocs, ndelivered, jobbkt, jobs, files, inodes,
                   maps, wire, ncalls>>

\* unpack_shmem_connection_info of the byte object just packed.
UnpackInfo ==
    /\ last.op = "pack_shmem_connection_info"
    /\ \E u \in {unpack_shmem_connection_info(last.reply.kvs[1])} :
           last' = [op |-> "unpack_shmem_connection_info", p |-> last.p,
                    nss |-> last.nss, rc |-> u.rc, reply |-> last.reply,
                    ev |-> last.ev, usb |-> u.usb]
    /\ UNCHANGED <<ptype, nlocalprocs, ndelivered, jobbkt, jobs, files, inodes,
                   maps, wire, ncalls>>

CodecNext ==
    \/ \E ns \in NS, role \in Roles : PackInfo("srv", ns, role)
    \/ UnpackInfo

CodecSpec == CodecInit /\ [][CodecNext]_vars

\* ------------------------------------------- a client and what it is handed
\* The state before any call.
InitWorld ==
    [jobs |-> [p \in Procs |-> [ns \in NS |-> NoJob]],
     files |-> [path \in Paths |-> 0],
     inodes |-> [i \in 1..NumInodes |-> ZeroSeg],
     maps |-> [p \in Procs |-> {}],
     wire |-> {}, jobbkt |-> [ns \in NS |-> NoBkt], envok |-> TRUE, ev |-> <<>>]

\* The state once the server has registered the first namespace (one call)
\* and, with modex, has stored a fence and marked the modex complete (three).
Served(modex) ==
    With(server_register_job_info(InitWorld, "srv", "nsA", NoEnv).W, LAMBDA W1 :
        IF modex
        THEN server_mark_modex_complete(
                 server_store_modex(W1, "srv", "nsA", NoEnv).W,
                 "srv", <<"nsA">>, NoEnv).W
        ELSE W1)

ClientInit ==
    /\ ptype = [p \in Procs |-> IF p = "srv" THEN "server" ELSE "client"]
    /\ nlocalprocs = [ns \in NS |-> 1]
    /\ ndelivered = [ns \in NS |-> 0]
    /\ \E modex \in BOOLEAN : \E W \in {Served(modex)} :
           /\ jobs = W.jobs
           /\ files = W.files
           /\ inodes = W.inodes
           /\ maps = W.maps
           /\ wire = W.wire
           /\ jobbkt = W.jobbkt
           /\ ncalls = (IF modex THEN 3 ELSE 1)
    /\ last = Idle

\* Byte objects as they may arrive: a blob the server packed, and a blob with
\* a field replaced, left out or added.
Put(bo, key, val) ==
    [i \in 1..Len(bo) |-> IF bo[i].key = key THEN KV(key, val) ELSE bo[i]]
Without(bo, key) == SelectSeq(bo, LAMBDA kv : kv.key # key)
Insert(bo, k, kv) == SubSeq(bo, 1, k - 1) \o <<kv>> \o SubSeq(bo, k, Len(bo))

\* What may arrive in place of the blob bo: a size or an address left out; a
\* role, size or address that is empty or no number; a key FOO at any place;
\* another path, size or address, one beyond the largest long long included.
Variants(bo) ==
    {Without(bo, k) : k \in {SHMEM_SEG_SIZE_KEY, SHMEM_SEG_ADDR_KEY}}
        \cup {Put(bo, k, v) : k \in {SHMEM_SEG_SMID_KEY, SHMEM_SEG_SIZE_KEY,
                                     SHMEM_SEG_ADDR_KEY},
                              v \in {<<>>, <<"z">>}}
        \cup {Insert(bo, k, KV("FOO", <<"x">>)) : k \in 1..(Len(bo) + 1)}
        \cup {Put(bo, SHMEM_SEG_PATH_KEY, path) : path \in Paths}
        \cup {Put(bo, SHMEM_SEG_SIZE_KEY, FormatZx(2 * PageSize))}
        \cup {Put(bo, SHMEM_SEG_ADDR_KEY, FormatZx(a)) :
                  a \in PageAddrs \cup {LLONG_MAX + 1}}

Blob(bo) == Kval(SHMEM_SEG_BLOB_KEY, PMIX_BYTE_OBJECT, bo)
InfoArrays == {PMIX_SESSION_INFO_ARRAY, PMIX_NODE_INFO_ARRAY, PMIX_APP_INFO_ARRAY}

\* Entries that are no blob: the three info arrays and a key of no meaning.
PlainEntries ==
    {Kval(k, PMIX_DATA_ARRAY, <<>>) : k \in InfoArrays}
        \cup {Kval("pmix.foo", PMIX_STRING, <<>>)}

\* The entries of the buffers of one entry, and those of the longer buffers.
ClientEntries ==
    {Blob(b.bo) : b \in wire}
        \cup UNION {{Blob(x) : x \in Variants(b.bo)} :
                    b \in {w \in wire : w.role = JOB}}
        \cup PlainEntries
CoreEntries ==
    {Blob(b.bo) : b \in wire}
        \cup {Blob(Insert(b.bo, 1, KV("FOO", <<"x">>))) :
                  b \in {w \in wire : w.role = JOB}}
        \cup PlainEntries
ClientBuffers ==
    {<<x>> : x \in ClientEntries} \cup {<<x, y>> : x \in CoreEntries, y \in CoreEntries}

ClientNext ==
    \/ \E c \in Clients, buff \in ClientBuffers, e \in RecvEnvs :
           StoreJobInfo(c, buff, e)
    \/ \E c \in Clients, buff \in ClientBuffers, e \in RecvEnvs :
           RecvModexComplete(c, buff, e)
    \/ Return

ClientSpec == ClientInit /\ [][ClientNext]_vars

\* ------------------------------------- a client that calls the server's part
\* The module's table of entry points is the same in every process: a client
\* that has stored its job info (or has not) calls the server entry points.
PeerNext ==
    \/ \E c \in Clients, buff \in Buffers, e \in RecvEnvs : StoreJobInfo(c, buff, e)
    \/ \E c \in Clients, ns \in NS : \E e \in RegisterEnvs(ns) :
           RegisterJobInfo(c, ns, e)
    \/ \E c \in Clients, ns \in ModexNS, e \in ModexEnvs : StoreModex(c, ns, e)
    \/ \E c \in Clients, nslist \in NsLists, e \in MarkEnvs :
           MarkModexComplete(c, nslist, e)
    \/ Return

PeerSpec == ClientInit /\ [][PeerNext]_vars

\* ------------------------------------------------ the arena by itself
\* Segment sizes a caller may request: around the page boundaries and at the
\* end of the range of a size_t.
SegSizes ==
    {0, 1, PageSize - 1, PageSize, PageSize + 1, 2 * PageSize - 1, 2 * PageSize,
     2 * PageSize + 1, 3 * PageSize, SIZE_MAX - PageSize + 1,
     SIZE_MAX - PageSize + 2, SIZE_MAX}
\* Sizes, element counts and strings handed to the allocation functions.
AllocSizes == {0, 1, 8, 9, PageSize, SIZE_MAX - 7, SIZE_MAX}
CallocArgs ==
    {<<0, 8>>, <<3, 3>>, <<1, PageSize>>,
     <<Pow2(WordBits \div 2), Pow2(WordBits - (WordBits \div 2))>>}
Strings == {<<>>, <<"a">>, <<"a", "b", "c", "d", "e", "f", "g">>}
MoveSizes == {0, 9, PageSize}
SIGABRT == "SIGABRT"

\* A server before any call.
ArenaInit ==
    /\ ptype = [p \in Procs |-> IF p = "srv" THEN "server" ELSE "client"]
    /\ nlocalprocs = [ns \in NS |-> 1]
    /\ ndelivered = [ns \in NS |-> 0]
    /\ jobs = InitWorld.jobs
    /\ files = InitWorld.files
    /\ inodes = InitWorld.inodes
    /\ maps = InitWorld.maps
    /\ wire = InitWorld.wire
    /\ jobbkt = InitWorld.jobbkt
    /\ ncalls = 0
    /\ last = Idle

\* The record of a call on the arena: its argument, the address it returned,
\* the bytes it wrote from there on and the cursor it found.
ArenaCall(op, p, ns, role, rc, arg, r, before, ev) ==
    [op |-> op, p |-> p, nss |-> <<ns>>, rc |-> rc, reply |-> EmptyReply,
     ev |-> ev, role |-> role, arg |-> arg, addr |-> r.addr,
     written |-> r.written, before |-> before]

\* shmem_segment_create_and_attach of a segment of `size` bytes for a role of
\* the tracker, and the construction of its header when that worked.
CreateSegment(p, ns, role, size, htsize) ==
    /\ last = Idle
    /\ ncalls < MaxCalls
    /\ ATTACHED \notin jobs[p][ns].status[role]
    /\ \E t \in {get_job_tracker(World, p, ns, TRUE)} :
       \E c \in {shmem_segment_create_and_attach(t.W, p, ns, role, size, NoEnv)} :
       \E r \in {IF c.rc # PMIX_SUCCESS THEN c
                 ELSE IF role = JOB THEN job_smdata_construct(c.W, p, ns, htsize)
                 ELSE modex_smdata_construct(c.W, p, ns, htsize)} :
           /\ Commit(r.W)
           /\ last' = ArenaCall("shmem_segment_create_and_attach", p, ns, role,
                                r.rc, size, [addr |-> 0, written |-> 0], 0,
                                r.W.ev)
    /\ UNCHANGED <<ptype, nlocalprocs, ndelivered>>

\* The arena of a role is in use by p: attached, its header constructed.
ArenaOf(p, ns, role) ==
    /\ ATTACHED \in jobs[p][ns].status[role]
    /\ jobs[p][ns].shmem[role].ino # 0
    /\ inodes[jobs[p][ns].shmem[role].ino].hdr.tma = p

\* A call r of a TMA function on the arena of the role has returned.
ArenaStep(op, p, ns, role, rc, arg, r) ==
    /\ ncalls' = ncalls + 1
    /\ inodes' = [inodes EXCEPT ![jobs[p][ns].shmem[role].ino] = r.seg]
    /\ last' = ArenaCall(op, p, ns, role, rc, arg, r,
                         inodes[jobs[p][ns].shmem[role].ino].hdr.current_addr,
                         <<>>)
    /\ UNCHANGED <<ptype, nlocalprocs, ndelivered, jobbkt, jobs, files, maps,
                   wire>>

TmaMalloc(p, ns, role, size) ==
    /\ last = Idle
    /\ ncalls < MaxCalls
    /\ ArenaOf(p, ns, role)
    /\ \E r \in {tma_malloc(inodes[jobs[p][ns].shmem[role].ino], size)} :
           ArenaStep("tma_malloc", p, ns, role, PMIX_SUCCESS, <<size>>, r)

TmaCalloc(p, ns, role, nmemb, size) ==
    /\ last = Idle
    /\ ncalls < MaxCalls
    /\ ArenaOf(p, ns, role)
    /\ \E r \in {tma_calloc(inodes[jobs[p][ns].shmem[role].ino], nmemb, size)} :
           ArenaStep("tma_calloc", p, ns, role, PMIX_SUCCESS, <<nmemb, size>>, r)

TmaStrdup(p, ns, role, str) ==
    /\ last = Idle
    /\ ncalls < MaxCalls
    /\ ArenaOf(p, ns, role)
    /\ \E r \in {tma_strdup(inodes[jobs[p][ns].shmem[role].ino], str)} :
           ArenaStep("tma_strdup", p, ns, role, PMIX_SUCCESS, <<str>>, r)

TmaMemmove(p, ns, role, size) ==
    /\ last = Idle
    /\ ncalls < MaxCalls
    /\ ArenaOf(p, ns, role)
    /\ \E r \in {tma_memmove(inodes[jobs[p][ns].shmem[role].ino], "src", size)} :
           ArenaStep("tma_memmove", p, ns, role, PMIX_SUCCESS, <<size>>, r)

\* tma_free of an address the arena handed out (any address below the cursor).
TmaFree(p, ns, role, ptr) ==
    /\ last = Idle
    /\ ncalls < MaxCalls
    /\ ArenaOf(p, ns, role)
    /\ ptr < inodes[jobs[p][ns].shmem[role].ino].hdr.current_addr
    /\ \E r \in {tma_free(inodes[jobs[p][ns].shmem[role].ino], ptr)} :
           ArenaStep("tma_free", p, ns, role, PMIX_SUCCESS, <<ptr>>, r)

\* tma_realloc in a build with assertions (ndebug FALSE: the process is
\* aborted) or without them (the call returns NULL).
TmaRealloc(p, ns, role, ptr, size, ndebug) ==
    /\ last = Idle
    /\ ncalls < MaxCalls
    /\ ArenaOf(p, ns, role)
    /\ \E r \in {tma_realloc(inodes[jobs[p][ns].shmem[role].ino], ptr, size,
                             ndebug)} :
           ArenaStep("tma_realloc", p, ns, role,
                     IF r.aborted THEN SIGABRT ELSE PMIX_SUCCESS, <<ptr, size>>, r)

\* The caller goes on after a call that returned; an aborted process does not.
ArenaReturn ==
    /\ last.rc # SIGABRT
    /\ Return

ArenaNext ==
    \/ \E role \in Roles, size \in SegSizes, htsize \in {1, 16} :
           CreateSegment("srv", "nsA", role, size, htsize)
    \/ \E role \in Roles, size \in AllocSizes : TmaMalloc("srv", "nsA", role, size)
    \/ \E role \in Roles, a \in CallocArgs :
           TmaCalloc("srv", "nsA", role, a[1], a[2])
    \/ \E role \in Roles, str \in Strings : TmaStrdup("srv", "nsA", role, str)
    \/ \E role \in Roles, size \in MoveSizes : TmaMemmove("srv", "nsA", role, size)
    \/ \E role \in Roles, i \in 0..(NumPages - 1) :
           TmaFree("srv", "nsA", role, PageAddr(i) + 8 * i)
    \/ \E role \in Roles, size \in {0, 8}, ndebug \in BOOLEAN :
           TmaRealloc("srv", "nsA", role, VmBase, size, ndebug)
    \/ ArenaReturn

ArenaSpec == ArenaInit /\ [][ArenaNext]_vars

\* ------------------------------------------------------ choice of a module
PMIX_GDS_MODULE == "pmix.gds.mod"
PMIX_GDS_SHMEM_NAME == <<"s", "h", "m", "e", "m">>
PMIX_GDS_SHMEM_DEFAULT_PRIORITY == 20
max_priority == 100

\* PMIx_Argv_split(str, ','): the non-empty runs of characters between commas.
RECURSIVE Argv_split(_, _, _)
Argv_split(str, i, tok) ==
    IF i > Len(str) THEN (IF tok = <<>> THEN <<>> ELSE <<tok>>)
    ELSE IF str[i] = ","
    THEN (IF tok = <<>> THEN <<>> ELSE <<tok>>) \o Argv_split(str, i + 1, <<>>)
    ELSE Argv_split(str, i + 1, Append(tok, str[i]))

\* The loop over info[]: the entry it stops at (0: none has the key) and the
\* priority it leaves.
RECURSIVE assign_loop(_, _)
assign_loop(info, n) ==
    IF n > Len(info)
    THEN [specified |-> FALSE, priority |-> PMIX_GDS_SHMEM_DEFAULT_PRIORITY]
    ELSE IF info[n].key = PMIX_GDS_MODULE
    THEN With(Argv_split(info[n].string, 1, <<>>), LAMBDA options :
             [specified |-> TRUE,
              priority |-> IF \E m \in 1..Len(options) :
                                  options[m] = PMIX_GDS_SHMEM_NAME
                           THEN max_priority
                           ELSE PMIX_GDS_SHMEM_DEFAULT_PRIORITY])
    ELSE assign_loop(info, n + 1)

\* assign_module that does not step back when other modules were asked for.
assign_module_keen(info, disable) ==
    With(assign_loop(info, 1), LAMBDA l :
        IF disable THEN [rc |-> PMIX_SUCCESS, priority |-> 0]
        ELSE [rc |-> PMIX_SUCCESS, priority |-> l.priority])

\* assign_module(info, ninfo, &priority); disable is PMIX_GDS_SHMEM_DISABLE == 1.
assign_module(info, disable) ==
    With(assign_loop(info, 1), LAMBDA l :
        IF disable THEN [rc |-> PMIX_SUCCESS, priority |-> 0]
        ELSE IF l.specified /\ l.priority # max_priority
        THEN [rc |-> PMIX_SUCCESS, priority |-> 0]
        ELSE [rc |-> PMIX_SUCCESS, priority |-> l.priority])

\* Values of an info entry: lists of module names.
ModuleLists ==
    {PMIX_GDS_SHMEM_NAME,
     <<"h", "a", "s", "h">>,
     <<"h", "a", "s", "h", ",">> \o PMIX_GDS_SHMEM_NAME,
     PMIX_GDS_SHMEM_NAME \o <<",", "h", "a", "s", "h">>,
     PMIX_GDS_SHMEM_NAME \o <<"2">>,
     <<"x">> \o PMIX_GDS_SHMEM_NAME \o <<",", ",", "d", "s">>,
     <<"s", "h", ",", "m", "e", "m">>}
InfoEntries ==
    {[key |-> k, string |-> str] : k \in {PMIX_GDS_MODULE, "pmix.tmpdir"},
                                   str \in ModuleLists}
Infos == {<<>>} \cup {<<x>> : x \in InfoEntries}
         \cup {<<x, y>> : x \in InfoEntries, y \in InfoEntries}

AssignModule(info, disable) ==
    /\ last = Idle
    /\ \E r \in {assign_module(info, disable)} :
           last' = [op |-> "assign_module", p |-> "srv", nss |-> <<>>,
                    rc |-> r.rc, reply |-> EmptyReply, ev |-> <<>>,
                    info |-> info, disable |-> disable, priority |-> r.priority]
    /\ UNCHANGED <<ptype, nlocalprocs, ndelivered, jobbkt, jobs, files, inodes,
                   maps, wire, ncalls>>

AssignNext ==
    \/ \E info \in Infos, disable \in BOOLEAN : AssignModule(info, disable)
    \/ Return

AssignSpec == ArenaInit /\ [][AssignNext]_vars

\* --------------------------------------------------- the estimates by themselves
\* Sizes of a fence payload and numbers of peers of a namespace.
BufferSizes == {0, 1, 48, 97, 1000, 3077, 4001, 20000, 65535, 100000}
NPeers == {1, 2, 3, 4}

\* Entries of a fetched list: the key, the type of the value and, for an array,
\* its length.
StatEntries ==
    {[key |-> k, type |-> PMIX_DATA_ARRAY, n |-> n, packed |-> 16] :
         k \in {PMIX_PROC_DATA, PMIX_NODE_INFO_ARRAY, "k1"}, n \in {0, 2, 3}}
    \cup {[key |-> k, type |-> PMIX_STRING, n |-> 0, packed |-> 16] :
              k \in {PMIX_PROC_DATA, PMIX_NODE_INFO_ARRAY, "k1"}}
StatLists == {<<>>} \cup {<<x>> : x \in StatEntries}
             \cup {<<x, y>> : x \in StatEntries, y \in StatEntries}

\* What the fetch of a directory key gives: nothing (the fetch fails), a path
\* that does not fit PMIX_PATH_MAX, or a path.
NoDir == "absent"
LongDir == "long"
NsDirs == {NoDir, LongDir, "/nsdir"}
TmpDirs == {NoDir, LongDir, "/tmpdir"}
EnvTmpDirs == {NoDir, "/envtmp"}

\* fetch_base_tmpdir: PMIX_NSDIR, then PMIX_TMPDIR; a fetch that fails ends
\* the loop, a path that does not fit goes on to the next key; without a
\* fetched path, getenv("TMPDIR") or "/tmp".
RECURSIVE fetch_loop(_, _)
fetch_loop(fetch_keys, i) ==
    IF i > Len(fetch_keys) THEN NoDir
    ELSE IF fetch_keys[i] = NoDir THEN NoDir
    ELSE IF fetch_keys[i] = LongDir THEN fetch_loop(fetch_keys, i + 1)
    ELSE fetch_keys[i]

fetch_base_tmpdir(nsdir, tmpdir, env) ==
    With(fetch_loop(<<nsdir, tmpdir>>, 1), LAMBDA fetched_path :
        IF fetched_path = NoDir
        THEN (IF env = NoDir THEN "/tmp" ELSE env)
        ELSE fetched_path)

\* The size estimate server_store_modex makes at the first fence.
ModexEstimate(bytes_used, npeers) ==
    /\ last = Idle
    /\ last' = [op |-> "modex_estimate", p |-> "srv", nss |-> <<>>,
                rc |-> PMIX_SUCCESS, reply |-> EmptyReply, ev |-> <<>>,
                bytes_used |-> bytes_used, npeers |-> npeers,
                htsize |-> ModexHtSize(npeers),
                seg_size |-> ModexSegSize(bytes_used, npeers)]
    /\ UNCHANGED <<ptype, nlocalprocs, ndelivered, jobbkt, jobs, files, inodes,
                   maps, wire, ncalls>>

\* get_local_job_data_stats on a fetched list.
JobDataStats(kvs) ==
    /\ last = Idle
    /\ last' = [op |-> "get_local_job_data_stats", p |-> "srv", nss |-> <<>>,
                rc |-> PMIX_SUCCESS, reply |-> EmptyReply, ev |-> <<>>,
                kvs |-> kvs, nhtentries |-> SumHtEntries(kvs, 1),
                stats |-> get_local_job_data_stats(kvs)]
    /\ UNCHANGED <<ptype, nlocalprocs, ndelivered, jobbkt, jobs, files, inodes,
                   maps, wire, ncalls>>

\* fetch_base_tmpdir with what the two keys and the environment hold.
FetchBaseTmpdir(nsdir, tmpdir, env) ==
    /\ last = Idle
    /\ last' = [op |-> "fetch_base_tmpdir", p |-> "srv", nss |-> <<>>,
                rc |-> PMIX_SUCCESS, reply |-> EmptyReply, ev |-> <<>>,
                nsdir |-> nsdir, tmpdir |-> tmpdir, env |-> env,
                basedir |-> fetch_base_tmpdir(nsdir, tmpdir, env)]
    /\ UNCHANGED <<ptype, nlocalprocs, ndelivered, jobbkt, jobs, files, inodes,
                   maps, wire, ncalls>>

SizingNext ==
    \/ \E b \in BufferSizes, n \in NPeers : ModexEstimate(b, n)
    \/ \E kvs \in StatLists : JobDataStats(kvs)
    \/ \E nsdir \in NsDirs, tmpdir \in TmpDirs, env \in EnvTmpDirs :
           FetchBaseTmpdir(nsdir, tmpdir, env)
    \/ Return

SizingSpec == ArenaInit /\ [][SizingNext]_vars

\* ------------------------------------------------------------------ claims
ServerOps == {"register_job_info", "store_modex", "mark_modex_complete"}
ClientOps == {"store_job_info", "recv_modex_complete"}
TeardownOps == {"del_nspace", "module_finalize"}

\* The call recorded in l took the step `what` on role `role` of namespace ns.
Did(l, what, ns, role) ==
    \E i \in 1..Len(l.ev) : l.ev[i] = [e |-> what, ns |-> ns, role |-> role]

\* The header of seg is laid out for a mapping of the segment at base: the
\* function table is installed and the cursor and the containers of the role
\* lie inside [base, base + size).
HeaderAt(seg, base, role) ==
    /\ seg.hdr.tma # ""
    /\ base < seg.hdr.current_addr
    /\ seg.hdr.current_addr <= base + seg.size
    /\ \A a \in (IF role = JOB
                 THEN {seg.hdr.jobinfo, seg.hdr.nodeinfo, seg.hdr.appinfo,
                       seg.hdr.local_hashtab}
                 ELSE {seg.hdr.hashtab}) : base < a /\ a < base + seg.size

\* Everything the server stores into the segment of the role is in it.
FullyWritten(seg, ns, role) ==
    IF role = JOB THEN seg.stored = Len(JobData(ns)) ELSE seg.stored >= 1

\* C1: a connection blob of a (namespace, role) is packed only when the server
\* has laid out the header of that segment, stored its data and set
\* READY_FOR_USE, and a client whose attach of the segment a blob describes
\* succeeds finds an initialized header at its base address.
C1_BlobOnlyOfInitializedSegment ==
    \A ns \in NS, role \in Roles :
        LET sh == jobs[last.p][ns].shmem[role]
        IN  /\ (last.op \in ServerOps /\ Did(last, "pack", ns, role))
                => /\ READY_FOR_USE \in jobs[last.p][ns].status[role]
                   /\ sh.ino # 0
                   /\ HeaderAt(inodes[sh.ino], sh.base_address, role)
                   /\ FullyWritten(inodes[sh.ino], ns, role)
            /\ (/\ last.op \in ClientOps
                /\ Did(last, "attach_and_init", ns, role)
                /\ ATTACHED \in jobs[last.p][ns].status[role]
                /\ \E b \in wire : b.ns = ns /\ b.role = role /\ b.ino = sh.ino)
                => HeaderAt(inodes[sh.ino], sh.base_address, role)

\* The (namespace, role) pairs of the blobs of a reply, as a client decodes them.
Decoded(kvs) ==
    [i \in 1..Len(kvs) |->
        LET u == unpack_shmem_connection_info(kvs[i])
        IN  [key |-> kvs[i].key, rc |-> u.rc, nsid |-> u.usb.nsid,
             role |-> u.usb.smid]]

\* One blob per READY_FOR_USE role of each namespace of the list, JOB first.
RECURSIVE ReadyRoles(_, _, _)
ReadyRoles(p, nslist, i) ==
    IF i > Len(nslist) THEN <<>>
    ELSE LET ns == nslist[i]
             One(role) ==
                 IF READY_FOR_USE \in jobs[p][ns].status[role]
                 THEN <<[key |-> SHMEM_SEG_BLOB_KEY, rc |-> PMIX_SUCCESS,
                         nsid |-> <<ns>>, role |-> role]>>
                 ELSE <<>>
         IN  One(JOB) \o One(MODEX) \o ReadyRoles(p, nslist, i + 1)

\* C2: pack_shmem_seg_blob appends a blob of a role exactly when the role is
\* READY_FOR_USE and otherwise succeeds with the reply unchanged: a blob is
\* packed only of a READY_FOR_USE role, and the reply of a successful
\* mark_modex_complete holds, for each namespace of the list in turn, one blob
\* per READY_FOR_USE role, JOB before MODEX, and nothing else.
C2_BlobIffReady ==
    /\ \A ns \in NS, role \in Roles :
           (last.op \in ServerOps /\ Did(last, "pack", ns, role))
               => READY_FOR_USE \in jobs[last.p][ns].status[role]
    /\ (last.op = "mark_modex_complete" /\ last.rc = PMIX_SUCCESS)
           => Decoded(last.reply.kvs) = ReadyRoles(last.p, last.nss, 1)

C2_Witness ==
    /\ last.op = "mark_modex_complete"
    /\ last.rc = PMIX_SUCCESS
    /\ last.nss = <<"nsA", "nsB">>
    /\ Len(last.reply.kvs) = 3
    /\ READY_FOR_USE \notin jobs["srv"]["nsB"].status[MODEX]

C4_MismatchLeavesRoleUnattached ==
    [][\A ns \in NS, role \in Roles :
           Did(last', "mismatch", ns, role)
               => /\ last'.rc # PMIX_SUCCESS
                  /\ jobs'[last'.p][ns].shmem[role].ino = 0
                  /\ maps'[last'.p] = maps[last'.p]
                  /\ jobs'[last'.p][ns].status[role]
                         \cap {ATTACHED, READY_FOR_USE} = {}
                  /\ (last'.p \in Clients
                          => files' = files /\ inodes' = inodes)]_vars

\* C5: once the server has set READY_FOR_USE on the JOB segment of a
\* namespace, no later call of the server writes to that segment while the
\* tracker lives, whatever register_job_info calls follow.
C5_NoWriteToReadyJobSegment ==
    [][\A ns \in NS :
           LET sh == jobs["srv"][ns].shmem[JOB]
           IN  (/\ last'.op \in ServerOps
                /\ jobs["srv"][ns].live
                /\ READY_FOR_USE \in jobs["srv"][ns].status[JOB]
                /\ sh.ino # 0)
                   => inodes'[sh.ino] = inodes[sh.ino]]_vars

\* C6: once the blob of a segment has been published, the server writes no
\* more to the segment; in particular no call of the server, a later
\* server_store_modex included, writes to a MODEX segment whose blob has been
\* packed into a reply for the clients to attach.
C6_NoWriteToPublishedModexSegment ==
    [][\A ns \in NS :
           LET sh == jobs["srv"][ns].shmem[MODEX]
           IN  (/\ last'.op \in ServerOps
                /\ sh.ino # 0
                /\ \E b \in wire : b.ns = ns /\ b.role = MODEX /\ b.ino = sh.ino)
                   => inodes'[sh.ino] = inodes[sh.ino]]_vars

\* C7: shmem_segment_create_and_attach runs for role JOB at most once in the
\* lifetime of a tracker: a register_job_info call on a tracker whose JOB
\* segment has been created and attached does not run it again.
C7_JobSegmentCreatedOnce ==
    [][\A ns \in NS :
           (/\ last'.op = "register_job_info"
            /\ jobs["srv"][ns].live
            /\ ATTACHED \in jobs["srv"][ns].status[JOB])
               => ~Did(last', "create_and_attach", ns, JOB)]_vars

\* C8: server_store_modex creates the MODEX segment only when the role is not
\* ATTACHED; a fence on an ATTACHED role keeps the segment (base address, size,
\* path, file and mapping), creates nothing, lays out no header and only
\* advances the arena cursor.
C8_ModexSegmentReused ==
    [][\A ns \in NS :
           (last'.op = "store_modex" /\ last'.nss = <<ns>>)
               => LET sh == jobs["srv"][ns].shmem[MODEX]
                      att == ATTACHED \in jobs["srv"][ns].status[MODEX]
                  IN  /\ Did(last', "create_and_attach", ns, MODEX) => ~att
                      /\ att => /\ jobs'["srv"][ns].shmem[MODEX] = sh
                                /\ ~Did(last', "create", ns, MODEX)
                                /\ ~Did(last', "mmap", ns, MODEX)
                                /\ ~Did(last', "construct", ns, MODEX)
                                /\ files' = files
                                /\ maps' = maps
                                /\ inodes'[sh.ino].hdr =
                                       [inodes[sh.ino].hdr EXCEPT !.current_addr =
                                            inodes'[sh.ino].hdr.current_addr]
                                /\ inodes'[sh.ino].hdr.current_addr
                                       >= inodes[sh.ino].hdr.current_addr
                                /\ inodes'[sh.ino].stored >= inodes[sh.ino].stored]_vars

C8_Witness ==
    /\ last.op = "store_modex"
    /\ last.rc = PMIX_SUCCESS
    /\ last.ev = <<[e |-> "store", ns |-> "nsA", role |-> MODEX]>>
    /\ jobs["srv"]["nsA"].status[MODEX] = Flags
    /\ inodes[jobs["srv"]["nsA"].shmem[MODEX].ino].stored = 2

\* C9: a new registration that fails at any step returns a status other than
\* success, and on return no backing file and no mapping the call created is
\* left.
C9_FailedRegistrationReleases ==
    [][\A ns \in NS :
           (/\ last'.op = "register_job_info"
            /\ last'.nss = <<ns>>
            /\ ~jobbkt[ns].cached
            /\ \/ last'.rc # PMIX_SUCCESS
               \/ ~Did(last', "pack", ns, JOB))
               => /\ last'.rc # PMIX_SUCCESS
                  /\ files' = files
                  /\ maps'["srv"] \subseteq maps["srv"]]_vars

\* C10: when a tracker is destroyed (del_nspace, finalize) the process unlinks
\* the backing file of a role exactly when the role's RELEASE flag is set;
\* every backing file the process created for the tracker is gone afterwards,
\* and a file of a role the process only attached stays.
C10_CreatorUnlinksOnTeardown ==
    [][\A ns \in NS, role \in Roles :
           LET p == last'.p
               path == <<ns, SegName(role), "srv">>
               release == RELEASE \in jobs[p][ns].status[role]
           IN  (/\ last'.op \in TeardownOps
                /\ jobs[p][ns].live
                /\ (last'.op = "module_finalize" \/ last'.nss = <<ns>>))
                   => /\ Did(last', "unlink", ns, role) <=> release
                      /\ (files[path] # 0 /\ inodes[files[path]].creator = p)
                             => files'[path] = 0
                      /\ ~release => files'[path] = files[path]]_vars

\* The trackers a teardown call of p destroys: the one of the namespace for
\* del_nspace, every one for module_finalize, if p has it.
Destroyed(l, ns) ==
    /\ l.op \in TeardownOps
    /\ l.op = "module_finalize" \/ l.nss = <<ns>>
    /\ jobs[l.p][ns].live

\* The mapping the segment object of a role of the tracker of p holds.
HeldBy(p, ns, role, m) ==
    /\ jobs[p][ns].shmem[role].ino # 0
    /\ m.ino = jobs[p][ns].shmem[role].ino
    /\ m.addr = jobs[p][ns].shmem[role].base_address

\* C11: del_nspace(ns) takes the tracker of ns off the job list of the process
\* and destructs it: both roles lose all their flags and the mapping each
\* segment object holds is released; the trackers of the other namespaces,
\* with their flags and segments, the other processes and the contents of the
\* segments stay as they were; with no tracker of ns nothing changes.  Either
\* way the call succeeds.  module_finalize does so for every tracker and
\* leaves the job list empty.
C11_TeardownRemovesOnlyItsTracker ==
    [][last'.op \in TeardownOps
           => LET p == last'.p
              IN  /\ last'.rc = PMIX_SUCCESS
                  /\ \A q \in Procs \ {p} : jobs'[q] = jobs[q] /\ maps'[q] = maps[q]
                  /\ inodes' = inodes
                  /\ wire' = wire
                  /\ jobbkt' = jobbkt
                  /\ maps'[p] = {m \in maps[p] :
                                    ~\E ns \in NS, role \in Roles :
                                        Destroyed(last', ns) /\ HeldBy(p, ns, role, m)}
                  /\ \A ns \in NS :
                         IF Destroyed(last', ns)
                         THEN /\ ~jobs'[p][ns].live
                              /\ \A role \in Roles : jobs'[p][ns].status[role] = {}
                              /\ Did(last', "destruct", ns, INVALID)
                         ELSE /\ jobs'[p][ns] = jobs[p][ns]
                              /\ \A role \in Roles :
                                     files'[<<ns, SegName(role), "srv">>]
                                         = files[<<ns, SegName(role), "srv">>]
                  /\ (last'.op = "module_finalize")
                         => \A ns \in NS : ~jobs'[p][ns].live]_vars

C11_Witness ==
    /\ last.op = "del_nspace"
    /\ last.p = "srv"
    /\ last.nss = <<"nsA">>
    /\ Did(last, "detach", "nsA", JOB)
    /\ Did(last, "detach", "nsA", MODEX)
    /\ ~jobs["srv"]["nsA"].live
    /\ jobs["srv"]["nsB"].live
    /\ ATTACHED \in jobs["srv"]["nsB"].status[JOB]

\* C12: with a cached reply for the namespace, register_job_info for a
\* further local peer copies the cached payload into the reply, equal to the
\* reply the first peer received when it was retained, and does nothing else:
\* no tracker, segment, file or mapping is created or written and no blob is
\* packed.
C12_CachedReplyCopiedVerbatim ==
    [][\A ns \in NS :
           /\ (last'.op = "register_job_info" /\ Did(last', "retain", ns, JOB))
                  => /\ last'.rc = PMIX_SUCCESS
                     /\ jobbkt'[ns] = [cached |-> TRUE, buf |-> last'.reply]
           /\ (jobbkt[ns].cached /\ jobbkt'[ns].cached) => jobbkt'[ns] = jobbkt[ns]
           /\ (/\ last'.op = "register_job_info"
               /\ last'.nss = <<ns>>
               /\ jobbkt[ns].cached)
                  => /\ \A i \in 1..Len(last'.ev) :
                            last'.ev[i].e \in {"cached", "uncache"}
                     /\ last'.rc = PMIX_SUCCESS => last'.reply = jobbkt[ns].buf
                     /\ jobs' = jobs
                     /\ files' = files
                     /\ inodes' = inodes
                     /\ maps' = maps
                     /\ wire' = wire]_vars

C12_Witness ==
    /\ last.op = "register_job_info"
    /\ last.rc = PMIX_SUCCESS
    /\ last.ev = <<[e |-> "cached", ns |-> "nsA", role |-> JOB]>>
    /\ jobbkt["nsA"].cached
    /\ last.reply = jobbkt["nsA"].buf
    /\ Len(last.reply.kvs) = 1
    /\ last.reply.kvs[1].key = SHMEM_SEG_BLOB_KEY

\* A register_job_info call for ns that finds the cached reply while the
\* count of deliveries equals the number of local peers.
LastDelivery(ns) ==
    /\ last'.op = "register_job_info"
    /\ last'.nss = <<ns>>
    /\ jobbkt[ns].cached
    /\ ndelivered[ns] = nlocalprocs[ns]

\* C13: the cached reply of a namespace is released, and the cache pointer
\* reset, exactly at the delivery at which the number of deliveries equals the
\* number of local peers: by no other step, and after that delivery no cached
\* reply remains.
C13_CacheReleasedAtLastDelivery ==
    [][\A ns \in NS :
           /\ (jobbkt[ns].cached /\ ~jobbkt'[ns].cached) => LastDelivery(ns)
           /\ LastDelivery(ns) => jobbkt'[ns] = NoBkt]_vars

\* C13 as the code has it: a launcher keeps the cached reply for good; every
\* other server releases it exactly at that delivery.
C13_CacheReleasedUnlessLauncher ==
    [][\A ns \in NS :
           /\ (jobbkt[ns].cached /\ ~jobbkt'[ns].cached)
                  => LastDelivery(ns) /\ ~IsLauncher(last'.p)
           /\ (LastDelivery(ns) /\ ~IsLauncher(last'.p)) => jobbkt'[ns] = NoBkt
           /\ (LastDelivery(ns) /\ IsLauncher(last'.p)) => jobbkt'[ns] = jobbkt[ns]]_vars

C13_Witness ==
    /\ last.op = "register_job_info"
    /\ last.nss = <<"nsA">>
    /\ IsServer("srv")
    /\ Did(last, "uncache", "nsA", JOB)
    /\ jobbkt["nsA"] = NoBkt
    /\ ndelivered["nsA"] = MaxLocalProcs
    /\ nlocalprocs["nsA"] = MaxLocalProcs

\* A register_job_info call for ns that published: it found no cached reply
\* and returned success.
Published(ns) ==
    /\ last'.op = "register_job_info"
    /\ last'.nss = <<ns>>
    /\ ~jobbkt[ns].cached
    /\ last'.rc = PMIX_SUCCESS

\* C14: after a successful first publish for a namespace the reply is retained
\* as the cached blob of the namespace if and only if the namespace has more
\* than one local peer.
C14_RetainedIffSeveralPeers ==
    [][\A ns \in NS :
           Published(ns) => (jobbkt'[ns].cached <=> nlocalprocs[ns] > 1)]_vars

\* C14 as the code has it: the reply is retained if and only if the process is
\* a launcher or the namespace has more than one local peer, and what is
\* retained is the reply of the call.
C14_RetainedIffLauncherOrSeveralPeers ==
    [][\A ns \in NS :
           Published(ns)
               => /\ jobbkt'[ns].cached
                         <=> (IsLauncher(last'.p) \/ nlocalprocs[ns] > 1)
                  /\ jobbkt'[ns].cached => jobbkt'[ns].buf = last'.reply]_vars

C14_Witness ==
    /\ last.op = "register_job_info"
    /\ last.rc = PMIX_SUCCESS
    /\ last.nss = <<"nsA">>
    /\ IsLauncher("srv")
    /\ nlocalprocs["nsA"] = 1
    /\ Did(last, "retain", "nsA", JOB)
    /\ jobbkt["nsA"] = [cached |-> TRUE, buf |-> last.reply]

\* The string is made of the sixteen lowercase digits only.
LowerHex(str) == \A i \in 1..Len(str) : \E d \in 1..16 : str[i] = HexDigits[d]

\* C15: for every connection-info tuple (namespace id, role JOB or MODEX,
\* backing path, size, base address), size and address being any value of a
\* size_t, unpack_shmem_connection_info of what pack_shmem_connection_info
\* made of it succeeds and yields the five values again; the role travels as
\* decimal digits, size and address as lowercase hex digits without prefix.
C15_UnpackOfPackIsIdentity ==
    (last.op = "unpack_shmem_connection_info")
        => LET ns == last.nss[1]
               role == last.ev[1].role
               sh == jobs[last.p][ns].shmem[role]
               bo == last.reply.kvs[1].bo
           IN  /\ last.rc = PMIX_SUCCESS
               /\ last.usb = [nsid |-> <<ns>>, smid |-> role,
                              seg_path |-> sh.backing_path,
                              seg_size |-> sh.size, seg_addr |-> sh.base_address]
               /\ bo[2].val \in {<<"0">>, <<"1">>}
               /\ LowerHex(bo[4].val)
               /\ LowerHex(bo[5].val)

\* What became of the entries of the buffer of a client call, in order.
EntryEvents(l) ==
    SelectSeq(l.ev, LAMBDA x : x.e \in {"blob_ok", "blob_err", "skip", "bad_key"})

JobInfoKeys == {SHMEM_SEG_BLOB_KEY} \cup InfoArrays

\* C16: store_job_info on a buffer with a key other than the blob key and the
\* three info-array keys stops at that entry and hands the bad-parameter
\* status to its caller.
C16_UnknownKeyIsBadParam ==
    (last.op = "store_job_info" /\ Did(last, "bad_key", "", INVALID))
        => /\ last.rc = PMIX_ERR_BAD_PARAM
           /\ Len(EntryEvents(last)) <= Len(last.reply.kvs)
           /\ last.reply.kvs[Len(EntryEvents(last))].key \notin JobInfoKeys

FiveKeys == {SHMEM_SEG_NSID_KEY, SHMEM_SEG_SMID_KEY, SHMEM_SEG_PATH_KEY,
             SHMEM_SEG_SIZE_KEY, SHMEM_SEG_ADDR_KEY}
HasKey(bo, key) == \E i \in 1..Len(bo) : bo[i].key = key

\* The string is a number of the base: one digit at least, digits only.
ValidNumber(str, base) ==
    Len(str) > 0 /\ \A i \in 1..Len(str) : IsDigit(str[i], base)

\* A field of the five is missing, or a number of the blob is none.
Malformed(bo) ==
    \/ \E key \in FiveKeys : ~HasKey(bo, key)
    \/ \E i \in 1..Len(bo) :
           \/ bo[i].key = SHMEM_SEG_SMID_KEY /\ ~ValidNumber(bo[i].val, 10)
           \/ bo[i].key \in {SHMEM_SEG_SIZE_KEY, SHMEM_SEG_ADDR_KEY}
                  /\ ~ValidNumber(bo[i].val, 16)

\* The first entry of the buffer of the client call l is a blob.
FirstIsBlob(l) ==
    /\ l.op \in ClientOps
    /\ Len(l.reply.kvs) >= 1
    /\ l.reply.kvs[1].key = SHMEM_SEG_BLOB_KEY

\* C17: a blob that lacks one of the five fields, or whose role, size or
\* address is no valid number of its base (the empty string included), is
\* rejected with an error by the client, with no tracker looked up or made, no
\* segment attached and no flag changed.
C17_MalformedBlobRejected ==
    [][(FirstIsBlob(last') /\ Malformed(last'.reply.kvs[1].bo))
           => /\ last'.rc # PMIX_SUCCESS
              /\ jobs' = jobs
              /\ maps' = maps
              /\ ~\E i \in 1..Len(last'.ev) :
                     last'.ev[i].e \in {"attach_and_init", "mmap"}]_vars

C19_StoreJobInfoSucceedsAtEndOfBuffer ==
    [][(last'.op = "store_job_info")
           => LET buff == last'.reply.kvs
                  evs == EntryEvents(last')
              IN  /\ Len(evs) <= Len(buff)
                  /\ Len(evs) < Len(buff) => Len(evs) >= 1
                  /\ \A i \in 1..Len(evs) :
                         /\ evs[i].e \in {"blob_ok", "blob_err"}
                                <=> buff[i].key = SHMEM_SEG_BLOB_KEY
                         /\ evs[i].e = "skip" <=> buff[i].key \in InfoArrays
                         /\ i < Len(evs) => evs[i].e \in {"blob_ok", "skip"}
                  /\ last'.rc = PMIX_SUCCESS
                         <=> /\ Len(evs) = Len(buff)
                             /\ \A i \in 1..Len(evs) : evs[i].e \in {"blob_ok", "skip"}
                  /\ (\A i \in 1..Len(buff) : buff[i].key \in InfoArrays)
                         => /\ last'.rc = PMIX_SUCCESS
                            /\ jobs' = jobs
                            /\ maps' = maps
                            /\ files' = files
                            /\ inodes' = inodes]_vars

C19_Witness ==
    /\ last.op = "store_job_info"
    /\ last.rc = PMIX_SUCCESS
    /\ Len(last.reply.kvs) = 2
    /\ last.reply.kvs[1].key = PMIX_NODE_INFO_ARRAY
    /\ last.reply.kvs[2].key = SHMEM_SEG_BLOB_KEY
    /\ Did(last, "skip", "", INVALID)
    /\ Did(last, "mmap", "nsA", JOB)
    /\ Did(last, "blob_ok", "", INVALID)
    /\ jobs["c1"]["nsA"].status[JOB] = {ATTACHED, READY_FOR_USE}

\* The string is what "%zx" prints of some size_t: lowercase hex digits, no
\* more of them than the word has.
HexWord(str) == Len(str) \in 1..((WordBits + 3) \div 4) /\ LowerHex(str)

\* The byte object names the five fields of the role of the namespace, with
\* a path, a size and an address of its own.
BlobFor(bo, ns, role) ==
    /\ Len(bo) = 5
    /\ bo[1] = KV(SHMEM_SEG_NSID_KEY, <<ns>>)
    /\ bo[2] = KV(SHMEM_SEG_SMID_KEY, FormatZd(SmidNum(role)))
    /\ bo[3].key = SHMEM_SEG_PATH_KEY
    /\ bo[4].key = SHMEM_SEG_SIZE_KEY
    /\ bo[5].key = SHMEM_SEG_ADDR_KEY
    /\ HexWord(bo[4].val)
    /\ HexWord(bo[5].val)

\* C20: a blob of a role that is ATTACHED in the tracker of the client makes
\* the client return success without mapping again; path, size, base address,
\* header pointer and flags of the segment stay, whatever path, size and
\* address the blob carries.
C20_AttachIsIdempotent ==
    [][\A ns \in NS, role \in Roles :
           (/\ FirstIsBlob(last')
            /\ Len(last'.reply.kvs) = 1
            /\ BlobFor(last'.reply.kvs[1].bo, ns, role)
            /\ ATTACHED \in jobs[last'.p][ns].status[role])
               => /\ last'.rc = PMIX_SUCCESS
                  /\ jobs' = jobs
                  /\ maps' = maps
                  /\ ~Did(last', "mmap", ns, role)]_vars

\* ------------------------------------------------------------ the arena
AllocOps == {"tma_malloc", "tma_calloc", "tma_strdup", "tma_memmove"}

\* The cursor of the arena of a role of the server's tracker of nsA.
Cursor(role) == inodes[jobs["srv"]["nsA"].shmem[role].ino].hdr.current_addr

\* The number of bytes the allocation recorded in l asks for.
Asked(l) ==
    IF l.op = "tma_calloc" THEN (l.arg[1] * l.arg[2]) % (SIZE_MAX + 1)
    ELSE IF l.op = "tma_strdup" THEN Len(l.arg[1]) + 1
    ELSE l.arg[1]

\* (p + 7) & ~7 on a machine word.
Align8(p) == ((p + 7) % (SIZE_MAX + 1)) - (((p + 7) % (SIZE_MAX + 1)) % 8)

\* C21: a segment the creator has initialized lies on a page-aligned base,
\* and after every alloc, calloc, strdup and memdup of any size, 0 included,
\* the address returned and the cursor are multiples of 8.
C21_AllocationsAligned ==
    /\ \A role \in Roles :
           ArenaOf("srv", "nsA", role) =>
               /\ jobs["srv"]["nsA"].shmem[role].base_address % PageSize = 0
               /\ Cursor(role) % 8 = 0
    /\ last.op \in AllocOps => last.addr % 8 = 0

\* A calloc of 3 * 3 bytes that follows an allocation of up to 8 bytes: it
\* starts on the next multiple of 8 and takes 16 bytes.
C21_Witness ==
    /\ last.op = "tma_calloc"
    /\ last.arg = <<3, 3>>
    /\ \E role \in Roles :
           /\ last.role = role
           /\ last.addr = Align8(jobs["srv"]["nsA"].shmem[role].base_address
                                 + SizeofSmmodex + SizeofHashTable
                                 + hash_table_capacity(1) * SizeofHashElement)
                          + 8
           /\ Cursor(role) = last.addr + 16

\* C22: alloc(n), calloc(m, n), strdup(s) and memdup(src, n) return the cursor
\* they find and leave the cursor at align8(old cursor + bytes asked for), the
\* bytes asked for being n, m * n, strlen(s) + 1 and n; the cursor advances
\* by align8 of that number (all in the arithmetic of the machine word).
C22_ReturnsCursorAndAdvances ==
    last.op \in AllocOps =>
        /\ last.addr = last.before
        /\ Cursor(last.role) = Align8(last.before + Asked(last))
        /\ Cursor(last.role) = (last.before + Align8(Asked(last))) % (SIZE_MAX + 1)

\* A strdup of a string of seven characters took eight bytes, and one of the
\* empty string took eight as well.
C22_Witness ==
    /\ last.op = "tma_strdup"
    /\ Len(last.arg[1]) = 7
    /\ Cursor(last.role) = last.addr + 8
    /\ last.addr > Align8(jobs["srv"]["nsA"].shmem[last.role].base_address
                          + SizeofSmdata)

\* C23: while the tracker of a segment lives, no operation on the segment
\* (alloc, calloc, strdup, memdup, free, a server entry point) lowers its
\* cursor, and free leaves the cursor and the contents of the segment as
\* they are.
C23_CursorNeverDecreases ==
    [][/\ \A ns \in NS, role \in Roles :
              LET ino == jobs["srv"][ns].shmem[role].ino
              IN  (/\ last'.op \in ServerOps \cup AllocOps \cup {"tma_free"}
                   /\ jobs["srv"][ns].live
                   /\ jobs'["srv"][ns].live
                   /\ ino # 0
                   /\ jobs'["srv"][ns].shmem[role].ino = ino
                   /\ inodes[ino].hdr.tma # ""
                   /\ inodes'[ino].hdr.tma # "")
                  => inodes'[ino].hdr.current_addr >= inodes[ino].hdr.current_addr
       /\ last'.op = "tma_free" => inodes' = inodes]_vars

\* C24: in every state the cursor of an arena is at most base + size of its
\* segment, and no allocation writes behind the end of the segment.
C24_CursorWithinSegment ==
    \A ns \in NS, role \in Roles :
        LET sh == jobs["srv"][ns].shmem[role]
        IN  (/\ ATTACHED \in jobs["srv"][ns].status[role]
             /\ sh.ino # 0
             /\ inodes[sh.ino].hdr.tma = "srv")
            => /\ inodes[sh.ino].hdr.current_addr <= sh.base_address + sh.size
               /\ (last.op \in AllocOps /\ last.nss = <<ns>> /\ last.role = role)
                      => last.addr + last.written <= sh.base_address + sh.size

\* C25: realloc on the arena never returns to its caller, whatever the
\* build, and changes neither the cursor nor the contents of the segment.
C25_ReallocAlwaysAborts ==
    [][last'.op = "tma_realloc" => (last'.rc = SIGABRT /\ inodes' = inodes)]_vars

\* ------------------------------------------------------- size of a segment
\* The least multiple of the page size that is at least s.
PageCeil(s) == ((s + get_page_size - 1) \div get_page_size) * get_page_size

\* The call recorded in l asked for a segment of a role and reached the
\* creation of its backing file.
CreatedBy(l) ==
    /\ l.op = "shmem_segment_create_and_attach"
    /\ Did(l, "create", "nsA", l.role)

\* C26: the size passed to segment creation is the requested size plus its
\* pad, the least multiple of the page size that is at least the requested
\* size, for every requested size.
C26_SizePaddedToPage ==
    CreatedBy(last) =>
        jobs["srv"]["nsA"].shmem[last.role].size = PageCeil(last.arg)

\* C26, amended: that holds for every requested size whose padded size fits a
\* size_t; for a greater one the sum wraps and the size passed is 0.
C26_SizePaddedToPageUnlessWrapped ==
    CreatedBy(last) =>
        jobs["srv"]["nsA"].shmem[last.role].size =
            (IF PageCeil(last.arg) <= SIZE_MAX THEN PageCeil(last.arg) ELSE 0)

\* One byte more than a page has become two pages.
C26_Witness ==
    /\ CreatedBy(last)
    /\ last.arg = get_page_size + 1
    /\ jobs["srv"]["nsA"].shmem[last.role].size = 2 * get_page_size
    /\ last.rc = PMIX_SUCCESS

\* ------------------------------------------------------ choice of a module
\* The caller named modules: an entry of info has the key of the module list.
Named(info) == \E n \in 1..Len(info) : info[n].key = PMIX_GDS_MODULE

\* The list of modules the caller named: the value of the first such entry.
NamedList(info) ==
    info[CHOOSE n \in 1..Len(info) :
             /\ info[n].key = PMIX_GDS_MODULE
             /\ \A k \in 1..(n - 1) : info[k].key # PMIX_GDS_MODULE].string

\* The name stands in the comma-separated list str as one of its names.
Mentions(str, name) ==
    \E i \in 1..Len(str) :
        /\ i + Len(name) - 1 <= Len(str)
        /\ SubSeq(str, i, i + Len(name) - 1) = name
        /\ (i = 1 \/ str[i - 1] = ",")
        /\ (i + Len(name) - 1 = Len(str) \/ str[i + Len(name)] = ",")

C28_ServerOnlyEntryPointsRefuseClients ==
    [][(last'.op \in ServerOps /\ ptype[last'.p] = "client")
           => /\ last'.rc = PMIX_ERR_NOT_SUPPORTED
              /\ last'.reply = EmptyReply
              /\ UNCHANGED <<jobs, files, inodes, maps, wire, jobbkt>>]_vars

\* ------------------------------------------------------------ status flags
\* C29: for every tracker and role, in server and client: READY_FOR_USE is
\* set only while ATTACHED is set; ATTACHED becomes set only in a call that
\* mapped the segment at the requested address; no flag is taken back while
\* the tracker lives; a tracker that is destroyed has no flag set.
C29_FlagsFollowTheOrder ==
    [][\A p \in Procs, ns \in NS, role \in Roles :
           LET old == jobs[p][ns].status[role]
               new == jobs'[p][ns].status[role]
           IN  /\ READY_FOR_USE \in new => ATTACHED \in new
               /\ (ATTACHED \in new /\ ATTACHED \notin old)
                      => /\ last'.p = p
                         /\ Did(last', "mmap", ns, role)
                         /\ ~Did(last', "mismatch", ns, role)
                         /\ \E m \in maps'[p] :
                                /\ m \notin maps[p]
                                /\ m.ino = jobs'[p][ns].shmem[role].ino
                                /\ m.addr = jobs'[p][ns].shmem[role].base_address
               /\ (jobs[p][ns].live /\ jobs'[p][ns].live) => old \subseteq new
               /\ ~jobs'[p][ns].live => new = {}]_vars

\* A client has attached the JOB segment at the address of the blob and has
\* it ready for use; the server that created it holds all three flags.
C29_Witness ==
    /\ last.op = "store_job_info"
    /\ Did(last, "mmap", "nsA", JOB)
    /\ jobs["c1"]["nsA"].status[JOB] = {ATTACHED, READY_FOR_USE}
    /\ jobs["srv"]["nsA"].status[JOB] = {ATTACHED, READY_FOR_USE, RELEASE}

\* C30: RELEASE of a role is set as soon as the creation of the backing file
\* by the process has succeeded, and only in the process that created the
\* file: a process that only attaches the segment never has RELEASE and holds
\* ATTACHED and READY_FOR_USE only.
C30_ReleaseLatchedAtCreation ==
    [][\A p \in Procs, ns \in NS, role \in Roles :
           /\ (last'.p = p /\ Did(last', "create", ns, role))
                  => RELEASE \in jobs'[p][ns].status[role]
           /\ RELEASE \in jobs'[p][ns].status[role]
                  => /\ jobs'[p][ns].shmem[role].backing_path \in Paths
                     /\ jobs'[p][ns].shmem[role].backing_path[3] = p
           /\ (p \in Clients /\ last'.op \in ClientOps)
                  => jobs'[p][ns].status[role] \subseteq {ATTACHED, READY_FOR_USE}]_vars

\* ------------------------------------------------ pointers in a segment
\* The pointers the header of a segment holds to its containers.
ContainerPointers(seg) ==
    {a \in {seg.hdr.jobinfo, seg.hdr.nodeinfo, seg.hdr.appinfo,
            seg.hdr.local_hashtab, seg.hdr.hashtab} : a # 0}

\* C31: every pointer stored in a segment (the cursor, the pointers to the
\* containers, the table of allocation functions) refers to the range
\* [base_address, base_address + size) of the segment as its creator has it
\* mapped; none refers to memory private to a process.
C31_PointersStayInSegment ==
    \A ns \in NS, role \in Roles :
        LET sh == jobs["srv"][ns].shmem[role]
        IN  (/\ ATTACHED \in jobs["srv"][ns].status[role]
             /\ sh.ino # 0
             /\ inodes[sh.ino].hdr.current_addr # 0)
            => /\ sh.base_address <= inodes[sh.ino].hdr.current_addr
               /\ inodes[sh.ino].hdr.current_addr <= sh.base_address + sh.size
               /\ \A a \in ContainerPointers(inodes[sh.ino]) :
                      sh.base_address <= a /\ a < sh.base_address + sh.size
               /\ inodes[sh.ino].hdr.tma \notin Procs

\* C32: at the first fence of a namespace the hash table of the MODEX segment
\* is given 256 * n_peers entries and the segment is asked with
\* (buffer_size * n_peers + sizeof(hash table) + capacity * per-entry storage)
\* * 2.5 * multiplier bytes, with no wrap-around.
ModexRaw(l) ==
    l.bytes_used * l.npeers + SizeofHashTable
    + (256 * l.npeers) * SizeofHashElement
C32_ModexEstimateIsTheFormula ==
    last.op = "modex_estimate"
    => /\ last.htsize = 256 * last.npeers
       /\ last.seg_size
              = (((ModexRaw(last) * 5) \div 2) * segment_size_multiplier_x2) \div 2
       /\ last.seg_size <= SIZE_MAX

\* C32 as the code has it: the capacity is 256 * n_peers and nothing wraps
\* around; the size is the formula evaluated in single precision, which is
\* the exact product while five times the raw size has no more than
\* FLT_MANT_DIG significant bits, and within two roundings of it beyond that.
C32_ModexEstimateInSinglePrecision ==
    last.op = "modex_estimate"
    => /\ last.htsize = 256 * last.npeers
       /\ last.seg_size <= SIZE_MAX
       /\ ModexRaw(last) * 5 < Pow2(FLT_MANT_DIG)
              => last.seg_size = (ModexRaw(last) * 5) \div 2
       /\ LET d == 2 * last.seg_size - 5 * ModexRaw(last)
          IN  (IF d < 0 THEN -d ELSE d)
                  <= (15 * ModexRaw(last)) \div Pow2(FLT_MANT_DIG) + 2
C32_Witness ==
    /\ last.op = "modex_estimate"
    /\ last.npeers = 4
    /\ last.htsize = 1024
    /\ last.seg_size # (ModexRaw(last) * 5) \div 2

\* C33: the expected number of hash entries of a fetched list is the sum,
\* over its entries, of the array length for an array of process data and of
\* one for every other entry, arrays of any other kind included.
RECURSIVE SumSeq(_)
SumSeq(s) == IF s = <<>> THEN 0 ELSE Head(s) + SumSeq(Tail(s))
SumOver(kvs, F(_)) == SumSeq([i \in 1..Len(kvs) |-> F(kvs[i])])
C33_HashEntriesCountEveryKey ==
    last.op = "get_local_job_data_stats"
    => last.nhtentries
           = SumOver(last.kvs,
                     LAMBDA kv : IF kv.type = PMIX_DATA_ARRAY
                                    /\ kv.key = PMIX_PROC_DATA
                                 THEN kv.n ELSE 1)

\* C33 as the code has it: an array of process data counts its length, an
\* array of any other kind counts nothing, every entry that is not an array
\* counts one; the hash-table size is the capacity for that many entries.
C33_HashEntriesSkipOtherArrays ==
    last.op = "get_local_job_data_stats"
    => /\ last.nhtentries
              = Cardinality({i \in 1..Len(last.kvs) :
                                last.kvs[i].type # PMIX_DATA_ARRAY})
                + SumOver(last.kvs,
                          LAMBDA kv : IF kv.type = PMIX_DATA_ARRAY
                                         /\ kv.key = PMIX_PROC_DATA
                                      THEN kv.n ELSE 0)
       /\ last.stats.hash_table_size
              = get_actual_hashtab_capacity(last.nhtentries)
C33_Witness ==
    /\ last.op = "get_local_job_data_stats"
    /\ Len(last.kvs) = 2
    /\ last.kvs[1].type = PMIX_DATA_ARRAY
    /\ last.kvs[1].key = PMIX_NODE_INFO_ARRAY
    /\ last.kvs[1].n = 3
    /\ last.kvs[2].type = PMIX_DATA_ARRAY
    /\ last.kvs[2].key = PMIX_PROC_DATA
    /\ last.kvs[2].n = 2
    /\ last.nhtentries = 2

\* C34: the base directory is the namespace directory when that is fetched
\* and fits, else the general temp directory when that is fetched and fits,
\* else TMPDIR of the environment when set, else /tmp.
Usable(dir) == dir # NoDir /\ dir # LongDir
C34_BaseDirInPriorityOrder ==
    last.op = "fetch_base_tmpdir"
    => last.basedir
           = (IF Usable(last.nsdir) THEN last.nsdir
              ELSE IF Usable(last.tmpdir) THEN last.tmpdir
              ELSE IF last.env # NoDir THEN last.env
              ELSE "/tmp")

\* C35: client_recv_modex_complete takes blob entries only: it handles the
\* entries in order, attaches the role of every blob that is not attached yet,
\* and returns success exactly when every entry up to the end of the buffer was
\* a blob handled with success; an entry of any other key, the three info
\* arrays included, is never skipped: the call stops there with an error.
C35_ModexCompleteAcceptsOnlyBlobs ==
    [][(last'.op = "recv_modex_complete")
           => LET buff == last'.reply.kvs
                  evs == EntryEvents(last')
              IN  /\ Len(evs) <= Len(buff)
                  /\ Len(evs) < Len(buff) => Len(evs) >= 1
                  /\ \A i \in 1..Len(evs) :
                         /\ evs[i].e # "skip"
                         /\ evs[i].e = "bad_key"
                                <=> buff[i].key # SHMEM_SEG_BLOB_KEY
                         /\ i < Len(evs) => evs[i].e = "blob_ok"
                  /\ last'.rc = PMIX_SUCCESS
                         <=> /\ Len(evs) = Len(buff)
                             /\ \A i \in 1..Len(evs) : evs[i].e = "blob_ok"
                  /\ last'.rc \in {PMIX_SUCCESS, PMIX_ERR_UNPACK_FAILURE}
                  /\ (\E i \in 1..Len(buff) : buff[i].key # SHMEM_SEG_BLOB_KEY)
                         => last'.rc = PMIX_ERR_UNPACK_FAILURE
                  /\ \A i \in 1..Len(evs), ns \in NS, role \in Roles :
                         (/\ evs[i].e = "blob_ok"
                          /\ BlobFor(buff[i].bo, ns, role))
                            => /\ ATTACHED \in jobs'[last'.p][ns].status[role]
                               /\ ATTACHED \in jobs[last'.p][ns].status[role]
                                      => ~Did(last', "mmap", ns, role)]_vars

C35_Witness ==
    /\ last.op = "recv_modex_complete"
    /\ last.rc = PMIX_SUCCESS
    /\ Len(last.reply.kvs) = 2
    /\ BlobFor(last.reply.kvs[1].bo, "nsA", JOB)
    /\ BlobFor(last.reply.kvs[2].bo, "nsA", MODEX)
    /\ Did(last, "mmap", "nsA", JOB)
    /\ Did(last, "mmap", "nsA", MODEX)
    /\ jobs["c1"]["nsA"].status[JOB] = {ATTACHED, READY_FOR_USE}
    /\ jobs["c1"]["nsA"].status[MODEX] = {ATTACHED, READY_FOR_USE}

\* The call stopped at an info array that store_job_info would have skipped.
C35_WitnessInfoArray ==
    /\ last.op = "recv_modex_complete"
    /\ last.rc = PMIX_ERR_UNPACK_FAILURE
    /\ Len(last.reply.kvs) = 2
    /\ last.reply.kvs[1].key = PMIX_NODE_INFO_ARRAY
    /\ last.reply.kvs[2].key = SHMEM_SEG_BLOB_KEY
    /\ Len(EntryEvents(last)) = 1
    /\ Did(last, "bad_key", "", INVALID)

\* C36: two allocations of the same arena with sizes above 0 take disjoint
\* ranges of bytes at or above align8(base + sizeof(header)): an allocation
\* starts behind the header, holds the start of no container allocated before
\* it, and leaves the cursor, where the next allocation starts, at or behind
\* its own end; an allocation of size 0 leaves the cursor at the address it
\* returned, so the allocation that follows returns the same address.
C36_AllocationsDisjoint ==
    last.op \in AllocOps
    => LET sh == jobs["srv"]["nsA"].shmem[last.role]
           hdrsize == IF last.role = JOB THEN SizeofSmdata ELSE SizeofSmmodex
       IN  /\ last.addr >= Align8(sh.base_address + hdrsize)
           /\ Asked(last) > 0
                  => /\ Cursor(last.role) >= last.addr + Asked(last)
                     /\ \A a \in ContainerPointers(inodes[sh.ino]) :
                            ~(last.addr <= a /\ a < last.addr + Asked(last))
           /\ Asked(last) = 0 => Cursor(last.role) = last.addr

\* The entry is the blob the server packed for the role of the namespace.
PackedFor(kval, ns, role) ==
    \E b \in wire : b.ns = ns /\ b.role = role /\ kval = Blob(b.bo)

\* C37: a client call that fails at an entry takes nothing back: the roles
\* attached by the entries before it stay ATTACHED and READY_FOR_USE; when the
\* failing entry is a blob that got as far as the attach, its tracker stays in
\* the job list with the flags of the role clear; and a tracker that a failed
\* attach left that way does not stand in the way later: a call whose first
\* entry is the blob the server packed for the role tries the attach again,
\* and the role is ATTACHED and READY_FOR_USE when the mapping is made at the
\* address asked for.
C37_NoRollbackOnFailure ==
    [][(last'.op \in ClientOps)
           => LET buff == last'.reply.kvs
                  evs == EntryEvents(last')
                  p == last'.p
              IN  /\ last'.rc # PMIX_SUCCESS
                         => /\ Len(evs) >= 1
                            /\ evs[Len(evs)].e \in {"blob_err", "bad_key"}
                            /\ \A i \in 1..Len(evs), ns \in NS, role \in Roles :
                                   (/\ evs[i].e = "blob_ok"
                                    /\ BlobFor(buff[i].bo, ns, role))
                                      => /\ jobs'[p][ns].live
                                         /\ jobs'[p][ns].status[role]
                                                = {ATTACHED, READY_FOR_USE}
                            /\ \A ns \in NS, role \in Roles :
                                   (/\ evs[Len(evs)].e = "blob_err"
                                    /\ BlobFor(buff[Len(evs)].bo, ns, role)
                                    /\ ATTACHED \notin jobs[p][ns].status[role]
                                    /\ Did(last', "attach_and_init", ns, role))
                                      => /\ jobs'[p][ns].live
                                         /\ jobs'[p][ns].status[role] = {}
                  /\ \A ns \in NS, role \in Roles :
                         (/\ jobs[p][ns].live
                          /\ jobs[p][ns].status[role] = {}
                          /\ jobs[p][ns].shmem[role].backing_path # NoPath
                          /\ Len(buff) >= 1
                          /\ PackedFor(buff[1], ns, role))
                            => /\ Did(last', "attach_and_init", ns, role)
                               /\ (Did(last', "mmap", ns, role)
                                   /\ ~Did(last', "mismatch", ns, role))
                                      => jobs'[p][ns].status[role]
                                             = {ATTACHED, READY_FOR_USE}]_vars

\* The first entry attached the JOB segment, the second is the blob of the
\* MODEX segment and its mapping failed: the JOB segment is still attached,
\* the tracker is there and the MODEX flags are clear.
C37_Witness ==
    /\ last.op \in ClientOps
    /\ last.rc # PMIX_SUCCESS
    /\ Len(last.reply.kvs) = 2
    /\ PackedFor(last.reply.kvs[1], "nsA", JOB)
    /\ PackedFor(last.reply.kvs[2], "nsA", MODEX)
    /\ Did(last, "mmap", "nsA", JOB)
    /\ Did(last, "attach_and_init", "nsA", MODEX)
    /\ ~Did(last, "mmap", "nsA", MODEX)
    /\ jobs["c1"]["nsA"].live
    /\ jobs["c1"]["nsA"].status[JOB] = {ATTACHED, READY_FOR_USE}
    /\ jobs["c1"]["nsA"].status[MODEX] = {}

====
